---------------------------- MODULE Spec2Model ----------------------------
(***************************************************************************)
(* A model of the scan execution engine of idor-scan: baseline capture,    *)
(* the sequential and the concurrent cross-identity test matrix, the       *)
(* no-auth test, request building and identifier substitution.             *)
(*                                                                         *)
(* Strings that the code inspects character by character (URLs, bodies,    *)
(* header names) are sequences of one-character strings.                   *)
(***************************************************************************)
EXTENDS Integers, Sequences, FiniteSets, Bags, TLC

VARIABLES
    \* ---- Scanner fields and the inputs of a run (src/cmd/types.go:42-47)
    mode,        \* "seq": RunWithBaseline, "conc": RunWithBaselineConcurrent, "off": no scan
    users,       \* Scanner.Users: sequence of identity names
    requests,    \* Scanner.Requests: sequence of [method, url]
    workersArg,  \* the argument of RunWithBaselineConcurrent
    server,      \* the API under test: what it answers to a request
    \* ---- locals of CaptureBaselines / RunWithBaseline / RunWithBaselineConcurrent
    pc,          \* position of the orchestrating goroutine
    ti, ai, vi,  \* loop indices: request, outer user (attacker), inner user (victim)
    baselines,   \* BaselineMap: endpoint -> (user name -> Baseline)
    findings,    \* the findings slice
    \* ---- the worker pool (src/cmd/concurrent.go:43-120)
    jobs,        \* buffered channel of ScanJob
    jobsClosed,
    results,     \* buffered channel of ScanResult
    resultsClosed,
    pool,        \* the worker goroutines: a bag of [pc, job, finding], pc "idle" |
                 \* "exec" | "wait" | "send" | "sleep" | "exited"
    wg,          \* sync.WaitGroup counter
    \* ---- history of the run (observations, not program state)
    captured,    \* number of finished iterations of the capture loop
    recorded,    \* set of <<endpoint, user name>> for which a baseline was ever stored
    matrix,      \* cross-identity tests run (seq) or jobs enqueued (conc), in order
    wire,        \* the HTTP request that the last step sent, NoRequest when it sent none
    nNoAuth,     \* number of testNoAuth calls
    unslept,     \* the orchestrating goroutine sent a request and has not slept since
    prior,       \* the findings of an earlier run on the same inputs
    executed,    \* the jobs that workers have executed, with how many times
    collected,   \* the number of results that the collector has received
    \* ---- input and output of the pure functions checked on their own
    inp, out

scanVars == <<mode, users, requests, workersArg, server, pc, ti, ai, vi, baselines,
              findings, jobs, jobsClosed, results, resultsClosed, pool, wg,
              captured, recorded, matrix, wire, nNoAuth, unslept, prior,
              executed, collected>>
fnVars == <<inp, out>>
vars == <<scanVars, fnVars>>

-----------------------------------------------------------------------------
(* Bounds of the model *)

MaxUsers == 2
MaxRequests == 2
MaxWorkers == 2
MaxBody == 120

-----------------------------------------------------------------------------
(* Strings: package strings of Go, on sequences of characters *)

\* s[i..] starts with p
MatchAt(s, i, p) ==
    /\ i + Len(p) - 1 <= Len(s)
    /\ \A j \in 1..Len(p) : s[i + j - 1] = p[j]

HasPrefix(s, p) == MatchAt(s, 1, p)

HasSuffix(s, p) == Len(p) <= Len(s) /\ MatchAt(s, Len(s) - Len(p) + 1, p)

TrimSuffix(s, p) == IF HasSuffix(s, p) THEN SubSeq(s, 1, Len(s) - Len(p)) ELSE s

Contains(s, sub) == \E i \in 1..(Len(s) + 1) : MatchAt(s, i, sub)

RECURSIVE ReplaceFrom(_, _, _, _)
\* strings.ReplaceAll on s[i..]: leftmost non-overlapping matches, left to right
ReplaceFrom(s, i, old, new) ==
    IF i > Len(s) THEN <<>>
    ELSE IF MatchAt(s, i, old)
         THEN new \o ReplaceFrom(s, i + Len(old), old, new)
         ELSE <<s[i]>> \o ReplaceFrom(s, i + 1, old, new)

RECURSIVE Interleave(_, _)
\* strings.ReplaceAll with an empty old: new before every character and at the end
Interleave(s, new) ==
    IF s = <<>> THEN new ELSE new \o <<s[1]>> \o Interleave(Tail(s), new)

ReplaceAll(s, old, new) ==
    IF old = <<>> THEN Interleave(s, new) ELSE ReplaceFrom(s, 1, old, new)

LowerLetters == <<"a","b","c","d","e","f","g","h","i","j","k","l","m",
                  "n","o","p","q","r","s","t","u","v","w","x","y","z">>
UpperLetters == <<"A","B","C","D","E","F","G","H","I","J","K","L","M",
                  "N","O","P","Q","R","S","T","U","V","W","X","Y","Z">>

ToLowerChar(c) ==
    IF \E i \in 1..26 : UpperLetters[i] = c
    THEN LowerLetters[CHOOSE i \in 1..26 : UpperLetters[i] = c]
    ELSE c

ToUpperChar(c) ==
    IF \E i \in 1..26 : LowerLetters[i] = c
    THEN UpperLetters[CHOOSE i \in 1..26 : LowerLetters[i] = c]
    ELSE c

ToLower(s) == [i \in 1..Len(s) |-> ToLowerChar(s[i])]

abs(x) == IF x < 0 THEN 0 - x ELSE x

-----------------------------------------------------------------------------
(* The cross-identity decision rule *)

\* as CrossUserSeverity, with sizeDiff <= 50 for sizeDiff < 50
CrossUserSeverityOffByOne(status, size, baseSize) ==
    IF status = 200 \/ status = 201
    THEN IF abs(size - baseSize) <= 50 /\ baseSize > 0 THEN "CRITICAL"
         ELSE IF size > 50 THEN "HIGH"
         ELSE "NONE"
    ELSE "NONE"

\* testCrossUserWithBaseline, after the exchange: the severity of the finding
\* it returns, "NONE" when it returns nil
CrossUserSeverity(status, size, baseSize) ==
    IF status = 200 \/ status = 201
    THEN IF abs(size - baseSize) < 50 /\ baseSize > 0 THEN "CRITICAL"
         ELSE IF size > 50 THEN "HIGH"
         ELSE "NONE"
    ELSE "NONE"

\* executeScanJob, after the exchange
ExecuteScanJobSeverity(status, size, baseSize) ==
    IF status = 200 \/ status = 201
    THEN IF abs(size - baseSize) < 50 /\ baseSize > 0 THEN "CRITICAL"
         ELSE IF size > 50 THEN "HIGH"
         ELSE "NONE"
    ELSE "NONE"


-----------------------------------------------------------------------------
(* The no-auth decision rule *)

UNAUTHORIZED == <<"u","n","a","u","t","h","o","r","i","z","e","d">>
FORBIDDEN == <<"f","o","r","b","i","d","d","e","n">>

\* as NoAuthSeverity, with the body folded to lower case before the search
NoAuthSeverityFolded(status, body) ==
    IF status = 200 /\ Len(body) > 50
    THEN IF Contains(ToLower(body), UNAUTHORIZED) \/ Contains(ToLower(body), FORBIDDEN)
         THEN "NONE"
         ELSE "HIGH"
    ELSE "NONE"

\* testNoAuth, after the exchange: "HIGH" when it returns a finding
NoAuthSeverity(status, body) ==
    IF status = 200 /\ Len(body) > 50
    THEN IF Contains(body, UNAUTHORIZED) \/ Contains(body, FORBIDDEN)
         THEN "NONE"
         ELSE "HIGH"
    ELSE "NONE"

-----------------------------------------------------------------------------
(* Inputs of a scan *)

UserNames == <<"alice", "bob", "carol", "dave">>

\* identity lists: names are unique within a scan
UserLists == {SubSeq(UserNames, 1, k) : k \in 0..MaxUsers}

\* A method and a URL are sequences of pieces of text; a space is a piece.
RequestPool == <<[Method |-> <<"GET">>, URL |-> <<"/api/users/{user_id}">>],
                [Method |-> <<"GET">>, URL |-> <<"/api/users/{user_id}/orders">>],
                [Method |-> <<"POST">>, URL |-> <<"/api/orders">>],
                [Method |-> <<"GET">>, URL |-> <<"/health">>]>>

\* two requests that differ in method and URL and share "GET /api/items b"
SpacedURL == [Method |-> <<"GET">>, URL |-> <<"/api/items", " ", "b">>]
SpacedMethod == [Method |-> <<"GET", " ", "/api/items">>, URL |-> <<"b">>]

\* Request lists, one of each shape: the i-th distinct request of a list is
\* RequestPool[i].  A collection may hold the same method and URL twice.
RequestLists ==
    LET shapes == UNION {[1..n -> 1..n] : n \in 0..MaxRequests}
        canonical(f) == \A i \in DOMAIN f :
                           f[i] = 1 \/ \E j \in 1..(i - 1) : f[j] >= f[i] - 1
    IN  {[i \in DOMAIN f |-> RequestPool[f[i]]] : f \in {g \in shapes : canonical(g)}}
        \cup {<<SpacedURL, SpacedMethod>>, <<SpacedMethod, SpacedURL>>}

\* http.NewRequest returns an error for a method that is no token
ValidMethod(method) == \A i \in DOMAIN method : method[i] # " "

\* the worker counts given to RunWithBaselineConcurrent: 0 stands for every
\* count <= 0; the pool of DefaultWorkers is run on lists of at most one request
WorkerArgs(reqs) == IF Len(reqs) <= 1 THEN 0..MaxWorkers ELSE 1..MaxWorkers

DefaultWorkers == 5

\* as NumWorkers, for a scan that falls back on a single worker
NumWorkersSingle(workers) == IF workers <= 0 THEN 1 ELSE workers

\* RunWithBaselineConcurrent: the coerced worker count
NumWorkers(workers) == IF workers <= 0 THEN DefaultWorkers ELSE workers

\* fmt.Sprintf("%s %s", req.Method, req.URL)
Endpoint(req) == req.Method \o <<" ">> \o req.URL

\* as ChanCap, for channels with one slot for each template
ChanCapTemplates == Len(requests)

\* capacity of the jobs and of the results channel
ChanCap == Len(requests) * Len(users) * Len(users)

(* The outcome of one test.  "nobuild": the builder returned nil;          *)
(* "err": client.Do returned an error; "resp": a response arrived.         *)
Pad(n) == [i \in 1..n |-> "x"]

BaselineResponses == {[kind |-> "resp", status |-> 200, size |-> 200],
                      [kind |-> "resp", status |-> 403, size |-> 20]}
CrossResponses == {[kind |-> "resp", status |-> 200, size |-> 198],
                   [kind |-> "resp", status |-> 200, size |-> 30],
                   [kind |-> "resp", status |-> 403, size |-> 198]}
NoAuthResponses == {[kind |-> "resp", status |-> 200, body |-> Pad(60)],
                    [kind |-> "resp", status |-> 200, body |-> Pad(48) \o UNAUTHORIZED],
                    [kind |-> "resp", status |-> 401, body |-> Pad(60)]}

Failures == {[kind |-> "nobuild"], [kind |-> "err"]}
CaptureOutcomes == Failures \cup BaselineResponses
CrossOutcomes == Failures \cup CrossResponses
NoAuthOutcomes == Failures \cup NoAuthResponses

(* The API under test.  AnyServer may answer every request with every       *)
(* outcome.  A server of Servers answers as a function of the request: an   *)
(* identity of `down` gets transport errors, a URL is "secure" (403 to      *)
(* another identity), "idor" (the victim's data), "partial" (a large 200    *)
(* that is not the victim's data) or "broken" (no request can be built),    *)
(* a cross-identity request of `lost` gets a transport error, and `anon`    *)
(* tells for every URL whether a request without credentials is served      *)
(* ("public"), refused ("private") or gets a transport error ("down").      *)
AnyServer == [kind |-> "any"]

URLs(reqs) == {reqs[i].URL : i \in DOMAIN reqs}

Servers(reqs) ==
    [kind : {"fn"}, down : SUBSET {UserNames[i] : i \in 1..MaxUsers}, lost : {{}},
     authz : [URLs(reqs) -> {"secure", "idor", "partial", "broken"}],
     anon : [URLs(reqs) -> {"public", "private", "down"}]]

\* the servers with at most one fault of transport: one identity is down, or
\* one cross-identity request <<URL, attacker, victim>> is lost
FaultyServers(reqs, us) ==
    LET names == {us[i] : i \in DOMAIN us}
        faults == {[down |-> {}, lost |-> {}]}
                  \cup {[down |-> {u}, lost |-> {}] : u \in names}
                  \cup {[down |-> {}, lost |-> {<<url, a, v>>}] :
                           url \in URLs(reqs), a \in names, v \in names}
    IN  {[kind |-> "fn", down |-> f.down, lost |-> f.lost, authz |-> z, anon |-> n] :
            f \in {g \in faults : \A p \in g.lost : p[2] # p[3]},
            z \in [URLs(reqs) -> {"secure", "idor", "partial", "broken"}],
            n \in [URLs(reqs) -> {"public", "private", "down"}]}

OwnSize(user) == 200 + 60 * (CHOOSE i \in 1..Len(UserNames) : UserNames[i] = user)

BaselineAnswer(srv, req, user) ==
    IF ~ValidMethod(req.Method) \/ srv.authz[req.URL] = "broken" THEN [kind |-> "nobuild"]
    ELSE IF user \in srv.down THEN [kind |-> "err"]
    ELSE [kind |-> "resp", status |-> 200, size |-> OwnSize(user)]

CrossAnswer(srv, req, attacker, victim) ==
    IF ~ValidMethod(req.Method) \/ srv.authz[req.URL] = "broken" THEN [kind |-> "nobuild"]
    ELSE IF attacker \in srv.down \/ <<req.URL, attacker, victim>> \in srv.lost
         THEN [kind |-> "err"]
    ELSE IF srv.authz[req.URL] = "idor"
         THEN [kind |-> "resp", status |-> 200, size |-> OwnSize(victim) - 2]
    ELSE IF srv.authz[req.URL] = "partial"
         THEN [kind |-> "resp", status |-> 200, size |-> OwnSize(victim) + 100]
    ELSE [kind |-> "resp", status |-> 403, size |-> 20]

NoAuthAnswer(srv, req) ==
    IF ~ValidMethod(req.Method) \/ srv.authz[req.URL] = "broken" THEN [kind |-> "nobuild"]
    ELSE IF srv.anon[req.URL] = "down" THEN [kind |-> "err"]
    ELSE IF srv.anon[req.URL] = "public"
         THEN [kind |-> "resp", status |-> 200, body |-> Pad(60)]
    ELSE [kind |-> "resp", status |-> 401, body |-> Pad(48) \o UNAUTHORIZED]

(* The server of the end-to-end scenario: bob's own request is answered    *)
(* 200 with 200 bytes, alice's request for bob's resource 200 with 198      *)
(* bytes; every other request has any outcome.                              *)
ScenarioServer == [kind |-> "scenario"]

ScenarioCapture(req, user) ==
    IF user = "bob" THEN {[kind |-> "resp", status |-> 200, size |-> 200]}
    ELSE CaptureOutcomes

ScenarioCross(req, attacker, victim) ==
    IF attacker = "alice" /\ victim = "bob"
    THEN {[kind |-> "resp", status |-> 200, size |-> 198]}
    ELSE CrossOutcomes

-----------------------------------------------------------------------------
(* Maps *)

EmptyMap == [x \in {} |-> 0]

Put(f, k, v) == [x \in (DOMAIN f) \cup {k} |-> IF x = k THEN v ELSE f[x]]

\* as HasBaseline, for a lookup whose ok is not consulted
HasBaselineUnchecked(bl, endpoint, name) == TRUE

\* baseline, ok := baselines[endpoint][name]
HasBaseline(bl, endpoint, name) ==
    /\ endpoint \in DOMAIN bl
    /\ name \in DOMAIN bl[endpoint]

\* An HTTP request on the wire: the test it belongs to, the request template,
\* the identity whose headers it carries and the identity whose ids it names
NoRequest == [kind |-> "none"]
BaselineRequest(t, user) == [kind |-> "baseline", t |-> t, cred |-> user, target |-> user]
CrossRequest(t, attacker, victim) ==
    [kind |-> "cross", t |-> t, cred |-> attacker, target |-> victim]
NoAuthRequest(t) == [kind |-> "noauth", t |-> t]

-----------------------------------------------------------------------------
(* Findings *)

CrossFinding(sev, req, attacker, victim, status, size, baseSize) ==
    [Severity |-> sev, Endpoint |-> req.URL, Method |-> req.Method,
     Description |-> <<IF sev = "CRITICAL" THEN "accessed data, response matches victim's baseline"
                       ELSE "got 200 accessing resource, size differs from baseline",
                       attacker, victim>>,
     Evidence |-> <<status, size, baseSize>>]

NoAuthFinding(req, status, size) ==
    [Severity |-> "HIGH", Endpoint |-> req.URL, Method |-> req.Method,
     Description |-> <<"Endpoint accessible without authentication">>,
     Evidence |-> <<status, size>>]

\* as AppendFinding, for a scan that gives its findings up when a test returns nil
AppendFindingOrGiveUp(fs, f) == IF f = <<>> THEN <<>> ELSE fs \o f

\* as AppendFinding, for a list that grows at its front
AppendFindingInFront(fs, f) == f \o fs

\* as AppendFinding, for a scan that appends every finding twice
AppendFindingTwice(fs, f) == fs \o f \o f

\* findings = append(findings, *f) when f != nil; f is a sequence of 0 or 1 finding
AppendFinding(fs, f) == fs \o f

ZeroBaseline == [StatusCode |-> 0, BodySize |-> 0]

\* as BaselineOf, for a lookup that finds no baseline
BaselineOfNone(bl, endpoint, name) == ZeroBaseline

\* the value of baselines[endpoint][name]: the zero Baseline when there is none
BaselineOf(bl, endpoint, name) ==
    IF endpoint \in DOMAIN bl /\ name \in DOMAIN bl[endpoint]
    THEN bl[endpoint][name]
    ELSE ZeroBaseline

\* the map after baseline, ok := baselines[endpoint][victim.Name]: the index
\* expression of a Go map reads and stores nothing
AfterLookup(bl, endpoint, name) == bl

\* testCrossUserWithBaseline under outcome o of its exchange: the finding it
\* returns (a sequence of 0 or 1 finding) and whether it sent the request
testCrossUserWithBaseline(req, attacker, victim, bl, o) ==
    LET base == BaselineOf(bl, Endpoint(req), victim) IN
    IF ~HasBaseline(bl, Endpoint(req), victim)
    THEN [finding |-> <<>>, sent |-> FALSE]
    ELSE IF o.kind = "nobuild" THEN [finding |-> <<>>, sent |-> FALSE]
    ELSE IF o.kind = "err" THEN [finding |-> <<>>, sent |-> TRUE]
    ELSE LET sev == CrossUserSeverity(o.status, o.size, base.BodySize)
         IN  [finding |-> IF sev = "NONE" THEN <<>>
                          ELSE <<CrossFinding(sev, req, attacker, victim,
                                              o.status, o.size, base.BodySize)>>,
              sent |-> TRUE]

\* the *Finding that executeScanJob returns
executeScanJob(job, o) ==
    IF o.kind # "resp" THEN <<>>
    ELSE LET sev == ExecuteScanJobSeverity(o.status, o.size, job.Baseline.BodySize)
         IN  IF sev = "NONE" THEN <<>>
             ELSE <<CrossFinding(sev, job.Request, job.Attacker, job.Victim,
                                 o.status, o.size, job.Baseline.BodySize)>>

\* the *Finding that testNoAuth returns
testNoAuth(req, o) ==
    IF o.kind # "resp" THEN <<>>
    ELSE IF NoAuthSeverity(o.status, o.body) = "HIGH"
         THEN <<NoAuthFinding(req, o.status, Len(o.body))>>
         ELSE <<>>

-----------------------------------------------------------------------------
(* The scan: CaptureBaselines *)

K == Len(users)
T == Len(requests)
W == NumWorkers(workersArg)

\* the outcomes that one exchange can have with the server of this run
CaptureAnswers(req, user) ==
    IF server = ScenarioServer THEN ScenarioCapture(req, user)
    ELSE IF server # AnyServer THEN {BaselineAnswer(server, req, user)}
    ELSE IF ValidMethod(req.Method) THEN CaptureOutcomes ELSE {[kind |-> "nobuild"]}
CrossAnswers(req, attacker, victim) ==
    IF server = ScenarioServer THEN ScenarioCross(req, attacker, victim)
    ELSE IF server # AnyServer THEN {CrossAnswer(server, req, attacker, victim)}
    ELSE IF ValidMethod(req.Method) THEN CrossOutcomes ELSE {[kind |-> "nobuild"]}
NoAuthAnswers(req) ==
    IF server = ScenarioServer THEN NoAuthOutcomes
    ELSE IF server # AnyServer THEN {NoAuthAnswer(server, req)}
    ELSE IF ValidMethod(req.Method) THEN NoAuthOutcomes ELSE {[kind |-> "nobuild"]}

inputVars == <<mode, users, requests, workersArg, server>>
loopVars == <<pc, ti, ai, vi>>
poolVars == <<jobs, jobsClosed, results, resultsClosed, pool, wg>>
histVars == <<captured, recorded, matrix, nNoAuth, unslept, prior, executed, collected>>

\* for _, req := range s.Requests: the body before the loop over the users
CaptureTemplate ==
    /\ pc = "capture" /\ ti <= T /\ ai = 0
    /\ baselines' = Put(baselines, Endpoint(requests[ti]), EmptyMap)
    /\ IF K = 0 THEN ti' = ti + 1 /\ ai' = 0 ELSE ti' = ti /\ ai' = 1
    /\ wire' = NoRequest
    /\ UNCHANGED <<inputVars, pc, vi, findings, poolVars, histVars, fnVars>>

\* for _, user := range s.Users: one iteration
CaptureUser ==
    /\ pc = "capture" /\ ti <= T /\ ai >= 1
    /\ \E o \in CaptureAnswers(requests[ti], users[ai]) :
         LET e == Endpoint(requests[ti])
             name == users[ai]
         IN  /\ baselines' =
                   IF o.kind = "resp"
                   THEN [baselines EXCEPT ![e] =
                            Put(@, name, [StatusCode |-> o.status, BodySize |-> o.size])]
                   ELSE baselines
             /\ recorded' = IF o.kind = "resp" THEN recorded \cup {<<e, name>>}
                            ELSE recorded
             /\ wire' = IF o.kind = "nobuild" THEN NoRequest ELSE BaselineRequest(ti, name)
             \* the sleep is reached only after a response
             /\ unslept' = IF o.kind = "resp" THEN FALSE
                           ELSE IF o.kind = "err" THEN TRUE
                           ELSE unslept
    /\ captured' = captured + 1
    /\ IF ai < K THEN ti' = ti /\ ai' = ai + 1 ELSE ti' = ti + 1 /\ ai' = 0
    /\ UNCHANGED <<inputVars, pc, vi, findings, poolVars, matrix, nNoAuth, prior, executed, collected, fnVars>>

\* as CaptureComplete, for a capture that returns after the first request
CaptureCompleteAfterFirst == ti > 1

\* CaptureBaselines has gone through every request
CaptureComplete == ti > T

-----------------------------------------------------------------------------
(* The scan: RunWithBaseline *)

SeqEnter(t) ==
    /\ ti' = t
    /\ IF t > T THEN pc' = "done" /\ ai' = 0 /\ vi' = 0
       ELSE IF K = 0 THEN pc' = "noauth" /\ ai' = 0 /\ vi' = 0
       ELSE pc' = "test" /\ ai' = 1 /\ vi' = 1

\* as SeqAdvance, with a break in place of the end of the loop over the victims
SeqAdvanceBreak ==
    IF vi < K THEN pc' = pc /\ ti' = ti /\ ai' = ai /\ vi' = vi + 1
    ELSE pc' = "noauth" /\ ti' = ti /\ ai' = 0 /\ vi' = 0

\* as SeqAdvance, with the loop over the attackers inside that over the victims
SeqAdvanceVictimMajor ==
    IF ai < K THEN pc' = pc /\ ti' = ti /\ ai' = ai + 1 /\ vi' = vi
    ELSE IF vi < K THEN pc' = pc /\ ti' = ti /\ ai' = 1 /\ vi' = vi + 1
    ELSE pc' = "noauth" /\ ti' = ti /\ ai' = 0 /\ vi' = 0

\* the loops over the attackers and the victims move to the next pair
SeqAdvance ==
    IF vi < K THEN pc' = pc /\ ti' = ti /\ ai' = ai /\ vi' = vi + 1
    ELSE IF ai < K THEN pc' = pc /\ ti' = ti /\ ai' = ai + 1 /\ vi' = 1
    ELSE pc' = "noauth" /\ ti' = ti /\ ai' = 0 /\ vi' = 0

\* as SelfPair, for a scan without the comparison of the names
SelfPairNever(attacker, victim) == FALSE

\* if attacker.Name == victim.Name { continue }
SelfPair(attacker, victim) == attacker = victim

\* baselines := s.CaptureBaselines() has returned
SeqCaptureReturn ==
    /\ mode = "seq" /\ pc = "capture" /\ CaptureComplete
    /\ SeqEnter(1)
    /\ wire' = NoRequest
    /\ UNCHANGED <<inputVars, baselines, findings, poolVars, histVars, fnVars>>

SeqSkipSelf ==
    /\ mode = "seq" /\ pc = "test"
    /\ SelfPair(users[ai], users[vi])
    /\ SeqAdvance
    /\ wire' = NoRequest
    /\ UNCHANGED <<inputVars, baselines, findings, poolVars, histVars, fnVars>>

\* one iteration of the loop over the victims: the test, the append, the sleep
SeqCrossTest ==
    /\ mode = "seq" /\ pc = "test"
    /\ ~SelfPair(users[ai], users[vi])
    /\ \E o \in CrossAnswers(requests[ti], users[ai], users[vi]) :
         LET r == testCrossUserWithBaseline(requests[ti], users[ai], users[vi], baselines, o)
         IN  /\ findings' = AppendFinding(findings, r.finding)
             /\ wire' = IF r.sent THEN CrossRequest(ti, users[ai], users[vi]) ELSE NoRequest
    /\ baselines' = AfterLookup(baselines, Endpoint(requests[ti]), users[vi])
    /\ matrix' = Append(matrix, <<ti, users[ai], users[vi]>>)
    /\ unslept' = FALSE
    /\ SeqAdvance
    /\ UNCHANGED <<inputVars, poolVars, captured, recorded, nNoAuth, prior, executed, collected, fnVars>>

\* the no-auth test of the request, the append, the sleep
SeqNoAuth ==
    /\ mode = "seq" /\ pc = "noauth"
    /\ \E o \in NoAuthAnswers(requests[ti]) :
         /\ findings' = AppendFinding(findings, testNoAuth(requests[ti], o))
         /\ wire' = IF o.kind = "nobuild" THEN NoRequest ELSE NoAuthRequest(ti)
    /\ nNoAuth' = nNoAuth + 1
    /\ unslept' = FALSE
    /\ SeqEnter(ti + 1)
    /\ UNCHANGED <<inputVars, baselines, poolVars, captured, recorded, matrix, prior, executed, collected, fnVars>>

-----------------------------------------------------------------------------
(* The scan: RunWithBaselineConcurrent and its workers *)

NoJob == [t |-> 0]

\* the goroutines of the pool carry no identity: the pool is a bag of their states
IdleWorker == [pc |-> "idle", job |-> NoJob, finding |-> <<>>]
ExitedWorker == [pc |-> "exited", job |-> NoJob, finding |-> <<>>]
\* the worker has received the job and has sent no request for it
Executing(job) == [pc |-> "exec", job |-> job, finding |-> <<>>]
\* the worker is in client.Do: the request of the job is sent, the answer pending
Awaiting(job) == [pc |-> "wait", job |-> job, finding |-> <<>>]
\* executeScanJob has returned f and the worker is at results <- ScanResult{f}
Sending(f) == [pc |-> "send", job |-> NoJob, finding |-> f]
\* the worker is in time.Sleep(s.rateDelay)
SleepingWorker == [pc |-> "sleep", job |-> NoJob, finding |-> <<>>]

Move(bag, from, to) == (bag (-) SetToBag({from})) (+) SetToBag({to})

\* the jobs that workers have received and sent no request for
Dequeued == {x.job : x \in {y \in DOMAIN pool : y.pc = "exec"}}

\* the jobs whose request is sent and not answered
Awaited == {x.job : x \in {y \in DOMAIN pool : y.pc = "wait"}}

\* the jobs that workers are executing
InFlight == Dequeued \cup Awaited

\* what the workers that stand at the send to the results channel hold
Held == {x.finding : x \in {y \in DOMAIN pool : y.pc = "send"}}

QueueEnter ==
    IF T = 0 \/ K = 0
    THEN pc' = "close" /\ ti' = 0 /\ ai' = 0 /\ vi' = 0
    ELSE pc' = "queue" /\ ti' = 1 /\ ai' = 1 /\ vi' = 1

QueueAdvance ==
    IF vi < K THEN pc' = pc /\ ti' = ti /\ ai' = ai /\ vi' = vi + 1
    ELSE IF ai < K THEN pc' = pc /\ ti' = ti /\ ai' = ai + 1 /\ vi' = 1
    ELSE IF ti < T THEN pc' = pc /\ ti' = ti + 1 /\ ai' = 1 /\ vi' = 1
    ELSE pc' = "close" /\ ti' = 0 /\ ai' = 0 /\ vi' = 0

ConcNoAuthEnter(t) ==
    /\ ti' = t /\ ai' = 0 /\ vi' = 0
    /\ pc' = IF t > T THEN "done" ELSE "noauth"

\* baselines := s.CaptureBaselines() has returned; the channels are made
ConcCaptureReturn ==
    /\ mode = "conc" /\ pc = "capture" /\ CaptureComplete
    /\ pc' = "spawn"
    /\ wire' = NoRequest
    /\ UNCHANGED <<inputVars, ti, ai, vi, baselines, findings, poolVars, histVars, fnVars>>

\* for i := 0; i < workers; i++ { wg.Add(1); go s.worker(...) }
StartWorkers ==
    /\ mode = "conc" /\ pc = "spawn"
    /\ pool' = [x \in {IdleWorker} |-> W]
    /\ wg' = W
    /\ QueueEnter
    /\ wire' = NoRequest
    /\ UNCHANGED <<inputVars, baselines, findings, jobs, jobsClosed, results,
                   resultsClosed, histVars, fnVars>>

QueueSkipSelf ==
    /\ mode = "conc" /\ pc = "queue"
    /\ SelfPair(users[ai], users[vi])
    /\ QueueAdvance
    /\ wire' = NoRequest
    /\ UNCHANGED <<inputVars, baselines, findings, poolVars, histVars, fnVars>>

\* baseline, ok := baselines[endpoint][victim.Name]; if !ok { continue }
QueueSkipNoBaseline ==
    /\ mode = "conc" /\ pc = "queue"
    /\ ~SelfPair(users[ai], users[vi])
    /\ ~HasBaseline(baselines, Endpoint(requests[ti]), users[vi])
    /\ baselines' = AfterLookup(baselines, Endpoint(requests[ti]), users[vi])
    /\ QueueAdvance
    /\ wire' = NoRequest
    /\ UNCHANGED <<inputVars, findings, poolVars, histVars, fnVars>>

\* jobs <- ScanJob{...}: blocks while the channel is full
QueueJob ==
    /\ mode = "conc" /\ pc = "queue"
    /\ ~SelfPair(users[ai], users[vi])
    /\ HasBaseline(baselines, Endpoint(requests[ti]), users[vi])
    /\ Len(jobs) < ChanCap
    /\ jobs' = Append(jobs, [t |-> ti, Request |-> requests[ti],
                             Attacker |-> users[ai], Victim |-> users[vi],
                             Baseline |-> BaselineOf(baselines, Endpoint(requests[ti]), users[vi])])
    /\ baselines' = AfterLookup(baselines, Endpoint(requests[ti]), users[vi])
    /\ matrix' = Append(matrix, <<ti, users[ai], users[vi]>>)
    /\ QueueAdvance
    /\ wire' = NoRequest
    /\ UNCHANGED <<inputVars, findings, jobsClosed, results, resultsClosed,
                   pool, wg, captured, recorded, nNoAuth, unslept, prior, executed, collected, fnVars>>

\* close(jobs); go func() { wg.Wait(); close(results) }()
CloseJobs ==
    /\ mode = "conc" /\ pc = "close"
    /\ jobsClosed' = TRUE
    /\ pc' = "collect"
    /\ wire' = NoRequest
    /\ UNCHANGED <<inputVars, ti, ai, vi, baselines, findings, jobs, results,
                   resultsClosed, pool, wg, histVars, fnVars>>

\* the goroutine started at line 87: wg.Wait() returns, close(results)
\* as WaitReturns, for a wait that does not wait
WaitReturnsAtOnce(n) == TRUE

\* wg.Wait() returns when every worker has called wg.Done()
WaitReturns(n) == n = 0

CloseResults ==
    /\ mode = "conc" /\ pc = "collect"
    /\ WaitReturns(wg) /\ ~resultsClosed
    /\ resultsClosed' = TRUE
    /\ wire' = NoRequest
    /\ UNCHANGED <<inputVars, loopVars, baselines, findings, jobs, jobsClosed,
                   results, pool, wg, histVars, fnVars>>

\* for result := range results: one iteration
Collect ==
    /\ mode = "conc" /\ pc = "collect"
    /\ results # <<>>
    /\ findings' = AppendFinding(findings, Head(results).Finding)
    /\ results' = Tail(results)
    /\ collected' = collected + 1
    /\ wire' = NoRequest
    /\ UNCHANGED <<inputVars, loopVars, baselines, jobs, jobsClosed, resultsClosed,
                   pool, wg, captured, recorded, matrix, nNoAuth, unslept, prior,
                   executed, fnVars>>

\* as ResultsDrained, for a collector that does not wait for close(results)
ResultsDrainedUnclosed == results = <<>>

\* for result := range results ends: the channel is closed and empty
ResultsDrained == results = <<>> /\ resultsClosed

\* the range over results ends
CollectEnd ==
    /\ mode = "conc" /\ pc = "collect"
    /\ ResultsDrained
    /\ ConcNoAuthEnter(1)
    /\ wire' = NoRequest
    /\ UNCHANGED <<inputVars, baselines, findings, poolVars, histVars, fnVars>>

\* for _, req := range s.Requests { f := s.testNoAuth(req); ...; time.Sleep }
ConcNoAuth ==
    /\ mode = "conc" /\ pc = "noauth"
    /\ \E o \in NoAuthAnswers(requests[ti]) :
         /\ findings' = AppendFinding(findings, testNoAuth(requests[ti], o))
         /\ wire' = IF o.kind = "nobuild" THEN NoRequest ELSE NoAuthRequest(ti)
    /\ nNoAuth' = nNoAuth + 1
    /\ unslept' = FALSE
    /\ ConcNoAuthEnter(ti + 1)
    /\ UNCHANGED <<inputVars, baselines, poolVars, captured, recorded, matrix, prior, executed, collected, fnVars>>

\* for job := range jobs: a job is received
WorkerDequeue ==
    /\ BagIn(IdleWorker, pool)
    /\ jobs # <<>>
    /\ pool' = Move(pool, IdleWorker, Executing(Head(jobs)))
    /\ jobs' = Tail(jobs)
    /\ wire' = NoRequest
    /\ UNCHANGED <<inputVars, loopVars, baselines, findings, jobsClosed, results,
                   resultsClosed, wg, histVars, fnVars>>

\* s.executeScanJob(job), up to client.Do: the request is built and sent, and
\* the worker waits for the answer; when no request can be built
\* executeScanJob returns nil at once
WorkerRequest(job) ==
    /\ BagIn(Executing(job), pool)
    /\ \E o \in CrossAnswers(job.Request, job.Attacker, job.Victim) :
         IF o.kind = "nobuild"
         THEN /\ pool' = Move(pool, Executing(job), Sending(executeScanJob(job, o)))
              /\ executed' = executed (+) SetToBag({<<job.t, job.Attacker, job.Victim>>})
              /\ wire' = NoRequest
         ELSE /\ pool' = Move(pool, Executing(job), Awaiting(job))
              /\ executed' = executed
              /\ wire' = CrossRequest(job.t, job.Attacker, job.Victim)
    /\ UNCHANGED <<inputVars, loopVars, baselines, findings, jobs, jobsClosed, results,
                   resultsClosed, wg, captured, recorded, matrix, nNoAuth, unslept,
                   prior, collected, fnVars>>

\* client.Do returns with a response or an error, and executeScanJob returns
\* its finding or nil
WorkerAnswer(job) ==
    /\ BagIn(Awaiting(job), pool)
    /\ \E o \in {a \in CrossAnswers(job.Request, job.Attacker, job.Victim) :
                    a.kind # "nobuild"} :
         pool' = Move(pool, Awaiting(job), Sending(executeScanJob(job, o)))
    /\ executed' = executed (+) SetToBag({<<job.t, job.Attacker, job.Victim>>})
    /\ wire' = NoRequest
    /\ UNCHANGED <<inputVars, loopVars, baselines, findings, jobs, jobsClosed, results,
                   resultsClosed, wg, captured, recorded, matrix, nNoAuth, unslept,
                   prior, collected, fnVars>>

\* results <- ScanResult{Finding: finding}: blocks while the channel is full
WorkerDeliver(f) ==
    /\ BagIn(Sending(f), pool)
    /\ Len(results) < ChanCap
    /\ results' = Append(results, [Finding |-> f])
    /\ pool' = Move(pool, Sending(f), SleepingWorker)
    /\ wire' = NoRequest
    /\ UNCHANGED <<inputVars, loopVars, baselines, findings, jobs, jobsClosed,
                   resultsClosed, wg, histVars, fnVars>>

\* time.Sleep(s.rateDelay) returns: the worker is at the head of its loop
WorkerSleep ==
    /\ BagIn(SleepingWorker, pool)
    /\ pool' = Move(pool, SleepingWorker, IdleWorker)
    /\ wire' = NoRequest
    /\ UNCHANGED <<inputVars, loopVars, baselines, findings, jobs, jobsClosed,
                   results, resultsClosed, wg, histVars, fnVars>>

\* as JobsDrained, for a worker that does not wait for close(jobs)
JobsDrainedUnclosed == jobs = <<>>

\* for job := range jobs ends: the channel is closed and empty
JobsDrained == jobs = <<>> /\ jobsClosed

\* as Done, for a worker that returns without wg.Done()
DoneForgotten(n) == n

\* wg.Done(): one goroutine fewer to wait for
Done(n) == n - 1

\* the range over jobs ends; defer wg.Done()
WorkerExit ==
    /\ BagIn(IdleWorker, pool)
    /\ JobsDrained
    /\ pool' = Move(pool, IdleWorker, ExitedWorker)
    /\ wg' = Done(wg)
    /\ wire' = NoRequest
    /\ UNCHANGED <<inputVars, loopVars, baselines, findings, jobs, jobsClosed,
                   results, resultsClosed, histVars, fnVars>>

-----------------------------------------------------------------------------
(* The specification of a scan *)

NoValue == [kind |-> "none"]

\* the state in which RunWithBaseline or RunWithBaselineConcurrent is entered
Init ==
    /\ mode \in {"seq", "conc"}
    /\ users \in UserLists
    /\ requests \in RequestLists
    /\ workersArg \in IF mode = "conc" THEN WorkerArgs(requests) ELSE {1}
    /\ pc = "capture" /\ ti = 1 /\ ai = 0 /\ vi = 0
    /\ baselines = EmptyMap
    /\ findings = <<>>
    /\ jobs = <<>> /\ jobsClosed = FALSE
    /\ results = <<>> /\ resultsClosed = FALSE
    /\ pool = EmptyBag /\ wg = 0
    /\ captured = 0 /\ recorded = {} /\ matrix = <<>> /\ wire = NoRequest
    /\ nNoAuth = 0 /\ unslept = FALSE /\ prior = <<>>
    /\ executed = EmptyBag /\ collected = 0
    /\ server = AnyServer
    /\ inp = NoValue /\ out = NoValue

Next ==
    \/ CaptureTemplate
    \/ CaptureUser
    \/ SeqCaptureReturn
    \/ SeqSkipSelf
    \/ SeqCrossTest
    \/ SeqNoAuth
    \/ ConcCaptureReturn
    \/ StartWorkers
    \/ QueueSkipSelf
    \/ QueueSkipNoBaseline
    \/ QueueJob
    \/ CloseJobs
    \/ CloseResults
    \/ Collect
    \/ CollectEnd
    \/ ConcNoAuth
    \/ WorkerDequeue
    \/ \E job \in Dequeued : WorkerRequest(job)
    \/ \E job \in Awaited : WorkerAnswer(job)
    \/ \E f \in Held : WorkerDeliver(f)
    \/ WorkerSleep
    \/ WorkerExit

Spec == Init /\ [][Next]_vars

-----------------------------------------------------------------------------
(* The decision rules on their own: every status and size within the bounds *)

\* no scan is running
ScanOff ==
    /\ mode = "off" /\ users = <<>> /\ requests = <<>> /\ workersArg = 0
    /\ pc = "off" /\ ti = 0 /\ ai = 0 /\ vi = 0
    /\ baselines = EmptyMap
    /\ findings = <<>>
    /\ jobs = <<>> /\ jobsClosed = FALSE
    /\ results = <<>> /\ resultsClosed = FALSE
    /\ pool = EmptyBag /\ wg = 0
    /\ captured = 0 /\ recorded = {} /\ matrix = <<>> /\ wire = NoRequest
    /\ nNoAuth = 0 /\ unslept = FALSE /\ prior = <<>>
    /\ executed = EmptyBag /\ collected = 0
    /\ server = AnyServer

Statuses == {200, 201, 204, 403, 500}

TheRequest == RequestPool[1]

InitClassify ==
    /\ ScanOff
    /\ inp \in [kind : {"exchange"}, status : Statuses, size : 0..MaxBody, base : 0..MaxBody]
    /\ out = NoValue

\* one cross-identity test of bob by alice, in the sequential mode
ClassifySeq ==
    /\ inp.kind = "exchange" /\ out = NoValue
    /\ LET bl == Put(EmptyMap, Endpoint(TheRequest),
                     Put(EmptyMap, "bob", [StatusCode |-> 200, BodySize |-> inp.base]))
           o == [kind |-> "resp", status |-> inp.status, size |-> inp.size]
       IN  out' = [kind |-> "seq",
                   finding |-> testCrossUserWithBaseline(TheRequest, "alice", "bob", bl, o).finding]
    /\ UNCHANGED <<scanVars, inp>>

\* the same test as a job of the worker pool
ClassifyConc ==
    /\ inp.kind = "exchange" /\ out = NoValue
    /\ LET job == [t |-> 1, Request |-> TheRequest, Attacker |-> "alice", Victim |-> "bob",
                   Baseline |-> [StatusCode |-> 200, BodySize |-> inp.base]]
           o == [kind |-> "resp", status |-> inp.status, size |-> inp.size]
       IN  out' = [kind |-> "conc", finding |-> executeScanJob(job, o)]
    /\ UNCHANGED <<scanVars, inp>>

NextClassify == ClassifySeq \/ ClassifyConc

SpecClassify == InitClassify /\ [][NextClassify]_vars

\* the severity of a returned *Finding, "NONE" for nil
SeverityOf(f) == IF f = <<>> THEN "NONE" ELSE f[1].Severity

\* C1: the cross-identity test emits CRITICAL iff the status is 200 or 201,
\* the sizes differ by less than 50 and the baseline size is positive; if not,
\* HIGH iff the status is 200 or 201 and the body is larger than 50 bytes; if
\* not, no finding.  The same in the sequential and in the concurrent mode.
C1_DecisionRule ==
    out.kind \in {"seq", "conc"} =>
        LET ok == inp.status \in {200, 201}
            close == inp.size - inp.base < 50 /\ inp.base - inp.size < 50
            critical == ok /\ close /\ inp.base > 0
            high == ~critical /\ ok /\ inp.size > 50
        IN  /\ Len(out.finding) <= 1
            /\ SeverityOf(out.finding) =
                  IF critical THEN "CRITICAL" ELSE IF high THEN "HIGH" ELSE "NONE"
            /\ (inp.status = 200 /\ inp.size = 120 /\ inp.base = 118)
                  => SeverityOf(out.finding) = "CRITICAL"
            /\ (inp.status = 200 /\ inp.size = 120 /\ inp.base = 0)
                  => SeverityOf(out.finding) = "HIGH"
            /\ inp.status = 403 => out.finding = <<>>

\* a worker judged status 201 with sizes exactly 49 apart as CRITICAL
C1_Witness ==
    /\ out.kind = "conc" /\ inp.status = 201 /\ inp.size = 51 /\ inp.base = 100
    /\ SeverityOf(out.finding) = "CRITICAL"

-----------------------------------------------------------------------------
(* testNoAuth on its own *)

MaxPad == 52

Words == {<<>>, <<"o","k">>, UNAUTHORIZED, FORBIDDEN,
          <<"U","n","a","u","t","h","o","r","i","z","e","d">>,
          <<"F","O","R","B","I","D","D","E","N">>,
          <<"u","n","a","u","t","h","o","r","i","s","e","d">>}

NoAuthStatuses == {200, 201, 401, 403}

InitNoAuth ==
    /\ ScanOff
    /\ inp \in [kind : {"body"}, status : NoAuthStatuses, pad : 0..MaxPad,
                word : Words, tail : 0..1]
    /\ out = NoValue

BodyOf(i) == Pad(i.pad) \o i.word \o Pad(i.tail)

NoAuthTest ==
    /\ inp.kind = "body" /\ out = NoValue
    /\ out' = [kind |-> "noauth",
               finding |-> testNoAuth(TheRequest,
                              [kind |-> "resp", status |-> inp.status, body |-> BodyOf(inp)])]
    /\ UNCHANGED <<scanVars, inp>>

NextNoAuth == NoAuthTest

SpecNoAuth == InitNoAuth /\ [][NextNoAuth]_vars

\* C7: testNoAuth emits a HIGH finding iff the status is exactly 200, the body
\* is larger than 50 bytes and holds neither "unauthorized" nor "forbidden"
\* (in that letter case); otherwise it emits nothing.
C7_NoAuthRule ==
    out.kind = "noauth" =>
        LET size == inp.pad + Len(inp.word) + inp.tail
            high == /\ inp.status = 200
                    /\ size > 50
                    /\ inp.word # UNAUTHORIZED
                    /\ inp.word # FORBIDDEN
        IN  /\ Len(out.finding) <= 1
            /\ high <=> (out.finding # <<>>)
            /\ out.finding # <<>> => out.finding[1].Severity = "HIGH"

\* a 51-byte body with "Unauthorized" (capital U) answered 200 is reported
C7_Witness ==
    /\ out.kind = "noauth" /\ inp.status = 200
    /\ inp.word = <<"U","n","a","u","t","h","o","r","i","z","e","d">>
    /\ inp.pad + Len(inp.word) + inp.tail = 51
    /\ out.finding # <<>>

-----------------------------------------------------------------------------
(* Properties of the scan *)

\* the tests of the matrix, as a set
Tested == {matrix[i] : i \in DOMAIN matrix}

\* the jobs that exist: queued or being executed
LiveJobs == {jobs[i] : i \in DOMAIN jobs} \cup InFlight

\* the map that CaptureBaselines returned holds an entry for the pair
Present(endpoint, name) ==
    \E e \in DOMAIN baselines : e = endpoint /\ \E n \in DOMAIN baselines[e] : n = name

\* the cross-identity findings among fs
CrossFindings(fs) == {fs[i] : i \in {j \in DOMAIN fs : Len(fs[j].Description) = 3}}

\* the findings that have been produced: appended or on the results channel
Produced ==
    CrossFindings(findings)
    \cup UNION {CrossFindings(results[i].Finding) : i \in DOMAIN results}

(* C2: in both modes no test is run, no job is made and no request is sent  *)
(* in which the attacker and the victim are the same identity.             *)
C2_NoSelfPairs ==
    /\ \A m \in Tested : m[2] # m[3]
    /\ \A job \in LiveJobs : job.Attacker # job.Victim
    /\ wire.kind = "cross" => wire.cred # wire.target
    /\ \A f \in Produced : f.Description[2] # f.Description[3]

\* two identities, one request: the concurrent scan has queued both ordered
\* pairs and skipped the two self-pairs
C2_Witness ==
    /\ mode = "conc" /\ pc = "close" /\ K = 2 /\ T = 1
    /\ Tested = {<<1, "alice", "bob">>, <<1, "bob", "alice">>}

(* C3: every baseline request is sent before the first cross-identity or    *)
(* no-auth request; in the concurrent mode before a worker exists, a job    *)
(* is queued or a job is received.                                          *)
C3_CaptureFirst ==
    /\ wire.kind \in {"cross", "noauth"} => captured = T * K
    /\ wire.kind = "baseline" => matrix = <<>> /\ nNoAuth = 0 /\ pool = EmptyBag
    /\ (matrix # <<>> \/ nNoAuth > 0 \/ jobs # <<>> \/ pool # EmptyBag) => captured = T * K
    /\ captured <= T * K

\* two requests, two identities: a cross-identity request is on the wire after
\* the four baseline exchanges
C3_Witness ==
    /\ wire.kind = "cross" /\ captured = 4 /\ T = 2 /\ K = 2

(* C4: a cross-identity request is sent only for a victim whose baseline    *)
(* was recorded in the map that the capture returned; for a pair without    *)
(* one no request is sent, no job is queued, no finding is produced and no  *)
(* baseline request is sent after the capture.                              *)
C4_BaselineRequired ==
    /\ wire.kind = "cross" =>
          /\ Present(Endpoint(requests[wire.t]), wire.target)
          /\ <<Endpoint(requests[wire.t]), wire.target>> \in recorded
    /\ \A job \in LiveJobs : Present(Endpoint(job.Request), job.Victim)
    /\ mode = "conc" => \A m \in Tested : Present(Endpoint(requests[m[1]]), m[3])
    /\ \A f \in Produced : Present(f.Method \o <<" ">> \o f.Endpoint, f.Description[3])
    /\ wire.kind = "baseline" => pc = "capture"

\* the sequential scan has called the test for a victim without a baseline,
\* which returned without a request and without a finding, and for a victim
\* that has one
C4_Witness ==
    /\ mode = "seq" /\ pc = "done" /\ K = 2 /\ T = 1
    /\ Len(matrix) = 2
    /\ ~Present(Endpoint(requests[1]), "bob")
    /\ Present(Endpoint(requests[1]), "alice")
    /\ CrossFindings(findings) # {}

\* the ordered pairs of distinct identities
OrderedPairs == {p \in {<<users[i], users[j]>> : i, j \in 1..K} : p[1] # p[2]}

(* C5: when the tests have been made, the sequential scan has called the    *)
(* test once for each of the k(k-1) ordered pairs of distinct identities of *)
(* every request; the concurrent scan has queued one job for each of these  *)
(* whose victim has a baseline, and for no other.                           *)
C5_JobCount ==
    /\ Len(matrix) = Cardinality(Tested)
    /\ (mode = "seq" /\ pc = "done") =>
          /\ Tested = {<<t, p[1], p[2]>> : t \in 1..T, p \in OrderedPairs}
          /\ Len(matrix) = T * K * (K - 1)
    /\ (mode = "conc" /\ pc \in {"close", "collect", "noauth", "done"}) =>
          Tested = {m \in {<<t, p[1], p[2]>> : t \in 1..T, p \in OrderedPairs} :
                       Present(Endpoint(requests[m[1]]), m[3])}

\* two requests, two identities: the sequential scan is over after 4 tests
C5_Witness ==
    /\ mode = "seq" /\ pc = "done" /\ K = 2 /\ T = 2 /\ Len(matrix) = 4

\* two requests on different endpoints, two identities: the concurrent scan
\* has queued 3 of the 4 jobs, the victim of the fourth has no baseline
C5_WitnessConcurrent ==
    /\ mode = "conc" /\ pc = "done" /\ K = 2 /\ T = 2 /\ Len(matrix) = 3
    /\ Endpoint(requests[1]) # Endpoint(requests[2])

-----------------------------------------------------------------------------
(* The two modes on the same inputs: RunWithBaseline, then                  *)
(* RunWithBaselineConcurrent, against a server whose response is a function *)
(* of the request.                                                          *)

InitEquiv ==
    /\ mode = "seq"
    /\ users \in UserLists
    /\ requests \in RequestLists
    /\ workersArg = 1
    /\ server \in Servers(requests)
    /\ pc = "capture" /\ ti = 1 /\ ai = 0 /\ vi = 0
    /\ baselines = EmptyMap
    /\ findings = <<>>
    /\ jobs = <<>> /\ jobsClosed = FALSE
    /\ results = <<>> /\ resultsClosed = FALSE
    /\ pool = EmptyBag /\ wg = 0
    /\ captured = 0 /\ recorded = {} /\ matrix = <<>> /\ wire = NoRequest
    /\ nNoAuth = 0 /\ unslept = FALSE /\ prior = <<>>
    /\ executed = EmptyBag /\ collected = 0
    /\ inp = NoValue /\ out = NoValue

\* RunWithBaseline has returned its findings; RunWithBaselineConcurrent is
\* entered with the same scanner
ScanAgainConcurrently ==
    /\ mode = "seq" /\ pc = "done"
    /\ prior' = findings
    /\ mode' = "conc"
    /\ workersArg' \in WorkerArgs(requests)
    /\ pc' = "capture" /\ ti' = 1 /\ ai' = 0 /\ vi' = 0
    /\ baselines' = EmptyMap
    /\ findings' = <<>>
    /\ captured' = 0 /\ recorded' = {} /\ matrix' = <<>> /\ wire' = NoRequest
    /\ nNoAuth' = 0 /\ unslept' = FALSE
    /\ UNCHANGED <<users, requests, server, poolVars, executed, collected, fnVars>>

NextEquiv == Next \/ ScanAgainConcurrently

SpecEquiv == InitEquiv /\ [][NextEquiv]_vars

\* the findings of fs with their multiplicities
BagOfSeq(fs) ==
    [f \in {fs[i] : i \in DOMAIN fs} |-> Cardinality({i \in DOMAIN fs : fs[i] = f})]

(* C6: against a server whose response is a function of the request, the    *)
(* concurrent scan returns, for every worker count, as many findings as the *)
(* sequential scan of the same identities and requests, and the same        *)
(* findings with the same multiplicities.                                   *)
C6_ModeEquivalence ==
    (mode = "conc" /\ pc = "done") =>
        /\ Len(findings) = Len(prior)
        /\ BagOfSeq(findings) = BagOfSeq(prior)

\* two workers, two requests, two identities: the concurrent scan returns the
\* four findings of the sequential scan in another order
C6_Witness ==
    /\ mode = "conc" /\ pc = "done" /\ workersArg = 2
    /\ K = 2 /\ T = 2
    /\ Len(findings) >= 4
    /\ findings # prior

-----------------------------------------------------------------------------
(* The construction of a request: buildRequest, buildRequestNoAuth,         *)
(* BuildSwappedURL and BuildSwappedBody.  Go ranges over a map in an        *)
(* unspecified order: every order is a possible result.                     *)

\* the orders in which a range over a map with these keys can visit them
Orders(keys) ==
    {o \in [1..Cardinality(keys) -> keys] : \A i, j \in DOMAIN o : o[i] = o[j] => i = j}

\* "{" + key + "}", ":" + key, "{{" + key + "}}", in the order of the slice
Placeholders(key) ==
    << <<"{">> \o key \o <<"}">>, <<":">> \o key, <<"{", "{">> \o key \o <<"}", "}">> >>

RECURSIVE ReplaceEach(_, _, _)
\* for _, placeholder := range placeholders { s = strings.ReplaceAll(s, placeholder, val) }
ReplaceEach(s, olds, val) ==
    IF olds = <<>> THEN s
    ELSE ReplaceEach(ReplaceAll(s, Head(olds), val), Tail(olds), val)

RECURSIVE ReplacePlaceholders(_, _, _)
\* for key, val := range params { ... }, the keys visited in this order
ReplacePlaceholders(s, params, order) ==
    IF order = <<>> THEN s
    ELSE ReplacePlaceholders(ReplaceEach(s, Placeholders(Head(order)), params[Head(order)]),
                             params, Tail(order))

\* the bytes that net/textproto accepts in a header name, of those of the model
TokenChars ==
    {LowerLetters[i] : i \in 1..26} \cup {UpperLetters[i] : i \in 1..26} \cup {"-", "_"}

\* http.Header.Set stores the value under textproto.CanonicalMIMEHeaderKey(key):
\* a name with a byte that is no token byte is kept as it is
CanonicalMIMEHeaderKey(s) ==
    IF \E i \in 1..Len(s) : s[i] \notin TokenChars THEN s
    ELSE [i \in 1..Len(s) |->
            IF i = 1 THEN ToUpperChar(s[i])
            ELSE IF s[i - 1] = "-" THEN ToUpperChar(s[i])
            ELSE ToLowerChar(s[i])]

RECURSIVE LastSet(_, _)
\* for each canonical name, the key of that name that the range visits last
LastSet(names, keys) ==
    IF names = {} THEN {EmptyMap}
    ELSE LET c == CHOOSE x \in names : TRUE
         IN  {Put(w, c, k) : w \in LastSet(names \ {c}, keys),
                             k \in {x \in keys : CanonicalMIMEHeaderKey(x) = c}}

\* the headers that `for key, val := range m { httpReq.Header.Set(key, val) }`
\* can leave, starting from h and setting the keys of `keys` only
SetEach(h, m, keys) ==
    LET names == {CanonicalMIMEHeaderKey(k) : k \in keys}
    IN  {[c \in (DOMAIN h) \cup names |-> IF c \in names THEN m[w[c]] ELSE h[c]] :
            w \in LastSet(names, keys)}

(* http.NewRequest(method, url, body) returns an error for a method that is *)
(* no token and for a URL that url.Parse rejects.  url.Parse is modelled on *)
(* the bytes of the texts of the model: letters, digits and punctuation     *)
(* without "#", "%", "@", "[" and control bytes.                            *)

URLLetters == {LowerLetters[i] : i \in 1..26} \cup {UpperLetters[i] : i \in 1..26}
URLDigits == {"0", "1", "2", "3", "4", "5", "6", "7", "8", "9"}

\* the index of the first byte of s that is in the set, 0 when there is none
IndexAny(s, set) ==
    IF \E i \in DOMAIN s : s[i] \in set
    THEN CHOOSE i \in DOMAIN s : s[i] \in set /\ \A j \in 1..(i - 1) : s[j] \notin set
    ELSE 0

\* s[:i] of strings.Cut(s, sep) for a separator of one byte
Before(s, sep) ==
    IF IndexAny(s, {sep}) = 0 THEN s ELSE SubSeq(s, 1, IndexAny(s, {sep}) - 1)

\* net/url getScheme: the index of the colon that ends the scheme, 0 when the
\* URL has no scheme, -1 for "missing protocol scheme" (a colon comes first)
getScheme(rawURL) ==
    LET stops == {i \in DOMAIN rawURL :
                    /\ rawURL[i] \notin URLLetters
                    /\ ~(i > 1 /\ rawURL[i] \in URLDigits \cup {"+", "-", "."})}
    IN  IF stops = {} THEN 0
        ELSE LET i == CHOOSE k \in stops : \A j \in stops : k <= j
             IN  IF rawURL[i] # ":" THEN 0
                 ELSE IF i = 1 THEN -1
                 ELSE i

\* the bytes that net/url leaves unescaped in a host (shouldEscape, encodeHost)
HostChars ==
    URLLetters \cup URLDigits
    \cup {"-", "_", ".", "~", "!", "$", "&", "'", "(", ")", "*", "+", ",", ";", "=", ":",
          "[", "]", "<", ">", "\""}

\* net/url parseHost for a host without "[": the port after the last colon
\* is made of digits, and every byte of the host is one that needs no escape
parseHost(host) ==
    LET colons == {i \in DOMAIN host : host[i] = ":"}
        last == CHOOSE i \in colons : \A j \in colons : j <= i
    IN  /\ colons # {} => \A i \in (last + 1)..Len(host) : host[i] \in URLDigits
        /\ \A i \in DOMAIN host : host[i] \in HostChars

\* url.Parse(rawURL) returns no error
URLParses(rawURL) ==
    LET colon == getScheme(rawURL)
        hasScheme == colon > 0
        rest == Before(SubSeq(rawURL, (IF hasScheme THEN colon ELSE 0) + 1, Len(rawURL)), "?")
    IN  IF rawURL = <<"*">> THEN TRUE
        ELSE IF colon = -1 THEN FALSE
        ELSE IF ~HasPrefix(rest, <<"/">>) /\ hasScheme THEN TRUE
        ELSE IF ~HasPrefix(rest, <<"/">>) /\ Contains(Before(rest, "/"), <<":">>) THEN FALSE
        ELSE IF (hasScheme \/ ~HasPrefix(rest, <<"/", "/", "/">>))
                /\ HasPrefix(rest, <<"/", "/">>)
             THEN parseHost(Before(SubSeq(rest, 3, Len(rest)), "/"))
        ELSE TRUE

\* httpReq, err := http.NewRequest(method, url, body) with err == nil
NewRequestOk(method, url) == ValidMethod(method) /\ URLParses(url)

\* the nil *http.Request
NilRequest == [nil |-> TRUE]

\* the requests that buildRequest can return: nil when http.NewRequest
\* rejects the method or the URL after the substitution
buildRequest(req, user, params) ==
    UNION {IF ~NewRequestOk(req.Method, ReplacePlaceholders(req.URL, params, o))
           THEN {NilRequest}
           ELSE {[Method |-> req.Method,
                  URL |-> ReplacePlaceholders(req.URL, params, o),
                  Body |-> ReplacePlaceholders(req.Body, params, o),
                  Header |-> h] :
                    h \in UNION {SetEach(h1, req.Headers,
                                          {k \in DOMAIN req.Headers :
                                              k \notin DOMAIN user.Headers}) :
                                    h1 \in SetEach(EmptyMap, user.Headers,
                                                   DOMAIN user.Headers)}} :
           o \in Orders(DOMAIN params)}

\* as authKeywords, without "token"
authKeywordsNoToken ==
    << <<"a","u","t","h">>, <<"c","o","o","k","i","e">>, <<"s","e","s","s","i","o","n">>,
       <<"x","-","a","p","i","-","k","e","y">> >>

authKeywords ==
    << <<"a","u","t","h">>, <<"c","o","o","k","i","e">>, <<"s","e","s","s","i","o","n">>,
       <<"t","o","k","e","n">>, <<"x","-","a","p","i","-","k","e","y">> >>

\* isAuth after the loop over authKeywords
isAuth(key) == \E i \in DOMAIN authKeywords : Contains(ToLower(key), authKeywords[i])

\* the requests that buildRequestNoAuth can return: nil when http.NewRequest
\* rejects the method or the URL of the template
buildRequestNoAuth(req) ==
    IF ~NewRequestOk(req.Method, req.URL) THEN {NilRequest}
    ELSE {[Method |-> req.Method, URL |-> req.URL, Body |-> req.Body, Header |-> h] :
            h \in SetEach(EmptyMap, req.Headers, {k \in DOMAIN req.Headers : ~isAuth(k)})}

\* BuildSwappedURL, strategy 2, for one key of attackerParams
SwapURLValue(result, attackerVal, victimVal) ==
    LET r1 == ReplaceAll(result, <<"/">> \o attackerVal \o <<"/">>,
                                 <<"/">> \o victimVal \o <<"/">>)
        r2 == ReplaceAll(r1, <<"/">> \o attackerVal \o <<"?">>,
                             <<"/">> \o victimVal \o <<"?">>)
        r3 == IF HasSuffix(r2, <<"/">> \o attackerVal)
              THEN TrimSuffix(r2, <<"/">> \o attackerVal) \o <<"/">> \o victimVal
              ELSE r2
        r4 == ReplaceAll(r3, <<"=">> \o attackerVal \o <<"&">>,
                             <<"=">> \o victimVal \o <<"&">>)
    IN  IF HasSuffix(r4, <<"=">> \o attackerVal)
        THEN TrimSuffix(r4, <<"=">> \o attackerVal) \o <<"=">> \o victimVal
        ELSE r4

\* BuildSwappedBody, the second loop, for one key of attackerParams
SwapBodyValue(result, attackerVal, victimVal) ==
    ReplaceAll(ReplaceAll(result, <<"\"">> \o attackerVal \o <<"\"">>,
                                  <<"\"">> \o victimVal \o <<"\"">>),
               attackerVal, victimVal)

\* victimParams[key] without the ok: the empty string for a key that is not there
ValueOrEmpty(params, key) == IF key \in DOMAIN params THEN params[key] ELSE <<>>

RECURSIVE SwapURLValuesNoOk(_, _, _, _)
\* as SwapURLValues, with victimVal := victimParams[key] and no test of ok
SwapURLValuesNoOk(result, attackerParams, victimParams, order) ==
    IF order = <<>> THEN result
    ELSE LET key == Head(order)
             swapped == IF attackerParams[key] # ValueOrEmpty(victimParams, key)
                        THEN SwapURLValue(result, attackerParams[key],
                                          ValueOrEmpty(victimParams, key))
                        ELSE result
         IN  SwapURLValuesNoOk(swapped, attackerParams, victimParams, Tail(order))

RECURSIVE SwapURLValues(_, _, _, _)
\* for key, attackerVal := range attackerParams { ... } of BuildSwappedURL
SwapURLValues(result, attackerParams, victimParams, order) ==
    IF order = <<>> THEN result
    ELSE LET key == Head(order)
             swapped == IF key \in DOMAIN victimParams
                           /\ attackerParams[key] # victimParams[key]
                        THEN SwapURLValue(result, attackerParams[key], victimParams[key])
                        ELSE result
         IN  SwapURLValues(swapped, attackerParams, victimParams, Tail(order))

RECURSIVE SwapBodyValues(_, _, _, _)
\* for key, attackerVal := range attackerParams { ... } of BuildSwappedBody
SwapBodyValues(result, attackerParams, victimParams, order) ==
    IF order = <<>> THEN result
    ELSE LET key == Head(order)
             swapped == IF key \in DOMAIN victimParams
                           /\ attackerParams[key] # victimParams[key]
                        THEN SwapBodyValue(result, attackerParams[key], victimParams[key])
                        ELSE result
         IN  SwapBodyValues(swapped, attackerParams, victimParams, Tail(order))

\* the strings that BuildSwappedURL can return
BuildSwappedURL(originalURL, attackerParams, victimParams) ==
    {SwapURLValues(ReplacePlaceholders(originalURL, victimParams, ov),
                   attackerParams, victimParams, oa) :
        ov \in Orders(DOMAIN victimParams), oa \in Orders(DOMAIN attackerParams)}

\* the strings that BuildSwappedBody can return
BuildSwappedBody(originalBody, attackerParams, victimParams) ==
    {SwapBodyValues(ReplacePlaceholders(originalBody, victimParams, ov),
                    attackerParams, victimParams, oa) :
        ov \in Orders(DOMAIN victimParams), oa \in Orders(DOMAIN attackerParams)}

-----------------------------------------------------------------------------
(* The headers of a built request *)

Authorization == <<"A","u","t","h","o","r","i","z","a","t","i","o","n">>
Accept == <<"A","c","c","e","p","t">>

\* the header names of the identities of the model
IdentityHeaderNames == {Authorization, ToLower(Authorization), ToLower(Accept)}

\* the header names of the templates of the model
TemplateHeaderNames ==
    {Authorization, ToLower(Authorization), Accept, ToLower(Accept),
     <<"X","-","C","S","R","F","-","T","o","k","e","n">>,
     <<"x","-","a","p","i","-","k","e","y">>,
     <<"C","o","o","k","i","e">>,
     <<"X","-","S","e","s","s","i","o","n","-","I","d">>,
     <<"x"," ","t","r","a","c","e">>}

\* a header map: every value tells whose it is and under which key it was given
HeaderMap(who, keys) == [k \in keys |-> <<who, k>>]

InitHeaders ==
    /\ ScanOff
    /\ \E uk \in SUBSET IdentityHeaderNames, tk \in SUBSET TemplateHeaderNames :
          inp = [kind |-> "build",
                 req |-> [Method |-> <<"GET">>, URL |-> <<"/","u","/","1">>, Body |-> <<>>,
                          Headers |-> HeaderMap("template", tk)],
                 user |-> [Name |-> "alice", Headers |-> HeaderMap("identity", uk),
                           Params |-> EmptyMap]]
    /\ out = NoValue

\* httpReq := s.buildRequest(req, user, user.Params)
BuildRequest ==
    /\ inp.kind = "build" /\ out = NoValue
    /\ \E r \in buildRequest(inp.req, inp.user, inp.user.Params) :
          out' = IF r = NilRequest THEN [kind |-> "nil", of |-> "buildRequest"]
                 ELSE [kind |-> "buildRequest", req |-> r]
    /\ UNCHANGED <<scanVars, inp>>

\* httpReq := s.buildRequestNoAuth(req)
BuildRequestNoAuth ==
    /\ inp.kind = "build" /\ out = NoValue
    /\ \E r \in buildRequestNoAuth(inp.req) :
          out' = IF r = NilRequest THEN [kind |-> "nil", of |-> "buildRequestNoAuth"]
                 ELSE [kind |-> "buildRequestNoAuth", req |-> r]
    /\ UNCHANGED <<scanVars, inp>>

NextHeaders == BuildRequest \/ BuildRequestNoAuth

SpecHeaders == InitHeaders /\ [][NextHeaders]_vars

\* the keywords of a credential header, as the claim lists them
CredentialWords ==
    { <<"a","u","t","h">>, <<"c","o","o","k","i","e">>, <<"s","e","s","s","i","o","n">>,
      <<"t","o","k","e","n">>, <<"x","-","a","p","i","-","k","e","y">> }

Credential(name) == \E kw \in CredentialWords : Contains(ToLower(name), kw)

\* the names of m that are name up to letter case
SameName(m, name) == {k \in DOMAIN m : ToLower(k) = ToLower(name)}

(* C8: the request built by buildRequestNoAuth carries no header whose      *)
(* lower-cased name contains auth, cookie, session, token or x-api-key; it  *)
(* carries every other header of the template, under its canonical name and *)
(* with the value the template gives to that name; no header of it comes    *)
(* from an identity.                                                        *)
C8_NoAuthHeaders ==
    out.kind = "buildRequestNoAuth" =>
        LET h == out.req.Header
            t == inp.req.Headers
        IN  /\ \A c \in DOMAIN h : ~Credential(c)
            /\ \A k \in DOMAIN t :
                  ~Credential(k) =>
                     \E c \in DOMAIN h :
                        /\ ToLower(c) = ToLower(k)
                        /\ h[c] \in {t[x] : x \in SameName(t, k)}
            /\ \A c \in DOMAIN h : h[c][1] = "template"
            /\ \A c \in DOMAIN h : \E k \in DOMAIN t : ToLower(c) = ToLower(k) /\ h[c] = t[k]

\* a template with Authorization, X-CSRF-Token, Cookie and accept: the request
\* carries Accept only
C8_Witness ==
    /\ out.kind = "buildRequestNoAuth"
    /\ DOMAIN inp.req.Headers =
          {Authorization, <<"X","-","C","S","R","F","-","T","o","k","e","n">>,
           <<"C","o","o","k","i","e">>, ToLower(Accept)}
    /\ DOMAIN out.req.Header = {Accept}
    /\ out.req.Header[Accept] = <<"template", ToLower(Accept)>>

(* C9: for every header that the identity sets, the request that            *)
(* buildRequest returns carries the value of the identity; a header of the  *)
(* template is applied only under a name that the identity did not set,     *)
(* names that differ in letter case only being one name.                    *)
C9_IdentityPrecedence ==
    out.kind = "buildRequest" =>
        LET h == out.req.Header
            u == inp.user.Headers
            t == inp.req.Headers
        IN  /\ \A k \in DOMAIN u :
                  \E c \in DOMAIN h :
                     /\ ToLower(c) = ToLower(k)
                     /\ h[c] \in {u[x] : x \in SameName(u, k)}
            /\ \A c \in DOMAIN h :
                  h[c][1] = "template" => SameName(u, c) = {}

(* What buildRequest does keep: a header that the identity sets is          *)
(* overwritten by no header that the template gives under the same key,     *)
(* letter for letter.                                                       *)
C9_ExactKeyPrecedence ==
    out.kind = "buildRequest" =>
        \A c \in DOMAIN out.req.Header :
            out.req.Header[c][1] = "template" =>
                out.req.Header[c][2] \notin DOMAIN inp.user.Headers

\* the identity gives authorization, the template Authorization: the request
\* carries the value of the template
C9_Witness ==
    /\ out.kind = "buildRequest"
    /\ DOMAIN inp.user.Headers = {ToLower(Authorization)}
    /\ DOMAIN inp.req.Headers = {Authorization}
    /\ out.req.Header[Authorization] = <<"template", Authorization>>

-----------------------------------------------------------------------------
(* The substitution of the placeholders *)

MaxSegments == 3

id == <<"i","d">>
org == <<"o","r","g">>

\* a template text is a sequence of segments: literal text or a placeholder
Segments ==
    {[lit |-> <<"/","u","/">>], [lit |-> <<"?","q","=">>]}
    \cup [form : {"brace", "colon", "double"}, name : {id}]
    \cup [form : {"brace"}, name : {org}]

Texts == UNION {[1..n -> Segments] : n \in 1..MaxSegments}

IsPlaceholder(seg) == "form" \in DOMAIN seg

\* the text of a segment in the template
Render(seg) ==
    IF ~IsPlaceholder(seg) THEN seg.lit
    ELSE IF seg.form = "brace" THEN <<"{">> \o seg.name \o <<"}">>
    ELSE IF seg.form = "colon" THEN <<":">> \o seg.name
    ELSE <<"{","{">> \o seg.name \o <<"}","}">>

RECURSIVE Flatten(_)
Flatten(ss) == IF ss = <<>> THEN <<>> ELSE Head(ss) \o Flatten(Tail(ss))

TemplateText(segs) == Flatten([i \in DOMAIN segs |-> Render(segs[i])])

\* the text with every placeholder of a name of params replaced by its value
Substituted(segs, params) ==
    Flatten([i \in DOMAIN segs |->
                IF IsPlaceholder(segs[i]) /\ segs[i].name \in DOMAIN params
                THEN params[segs[i].name]
                ELSE Render(segs[i])])

VictimParams == {Put(EmptyMap, id, <<"4","2">>),
                 Put(Put(EmptyMap, id, <<"4","2">>), org, <<"7">>)}

AttackerParams == {EmptyMap, Put(EmptyMap, id, <<"9">>)}

InitSubst ==
    /\ ScanOff
    /\ \E segs \in Texts, vp \in VictimParams, ap \in AttackerParams :
          inp = [kind |-> "build", segs |-> segs,
                 req |-> [Method |-> <<"GET">>, URL |-> TemplateText(segs),
                          Body |-> TemplateText(segs), Headers |-> EmptyMap],
                 user |-> [Name |-> "bob", Headers |-> EmptyMap, Params |-> vp],
                 attacker |-> ap]
    /\ out = NoValue

\* BuildSwappedURL(req.URL, attacker.Params, victim.Params)
SwapURL ==
    /\ inp.kind = "build" /\ out = NoValue
    /\ \E r \in BuildSwappedURL(inp.req.URL, inp.attacker, inp.user.Params) :
          out' = [kind |-> "BuildSwappedURL", text |-> r]
    /\ UNCHANGED <<scanVars, inp>>

\* BuildSwappedBody(req.Body, attacker.Params, victim.Params)
SwapBody ==
    /\ inp.kind = "build" /\ out = NoValue
    /\ \E r \in BuildSwappedBody(inp.req.Body, inp.attacker, inp.user.Params) :
          out' = [kind |-> "BuildSwappedBody", text |-> r]
    /\ UNCHANGED <<scanVars, inp>>

NextSubst == BuildRequest \/ SwapURL \/ SwapBody

SpecSubst == InitSubst /\ [][NextSubst]_vars

\* the texts that the operation returned: the URL and the body of a request
Returned ==
    IF out.kind = "buildRequest" THEN {out.req.URL, out.req.Body}
    ELSE IF out.kind \in {"BuildSwappedURL", "BuildSwappedBody"} THEN {out.text}
    ELSE {}

(* C10: after the substitution by buildRequest, BuildSwappedURL or          *)
(* BuildSwappedBody, every {name}, :name and {{name}} of a parameter name   *)
(* of the victim stands replaced by exactly the value of the parameter; no  *)
(* brace is left around the value of a {{name}}.                            *)
C10_PlaceholdersReplaced ==
    \A text \in Returned : text = Substituted(inp.segs, inp.user.Params)

\* "/u/{{id}}" with id = 42 comes out of buildRequest as "/u/{42}"
C10_Witness ==
    /\ out.kind = "buildRequest"
    /\ inp.req.URL = <<"/","u","/","{","{","i","d","}","}">>
    /\ inp.user.Params[id] = <<"4","2">>
    /\ out.req.URL = <<"/","u","/","{","4","2","}">>

(* What the three operations do achieve: a text without {{name}} comes out  *)
(* with every {name} and :name replaced by exactly the value.               *)
C10_SingleBraceAndColon ==
    (\A i \in DOMAIN inp.segs : IsPlaceholder(inp.segs[i]) => inp.segs[i].form # "double")
        => \A text \in Returned : text = Substituted(inp.segs, inp.user.Params)

-----------------------------------------------------------------------------
(* The substitution of the placeholders, applied twice *)

\* the pieces of the texts: placeholders of id and org, and text around them
TwicePieces ==
    { <<"/","u","/">>, <<"{","i","d","}">>, <<":","i","d">>,
      <<"{","{","i","d","}","}">>, <<"{","i">>, <<"d","}">>, <<"{","o","r","g","}">> }

TwiceTexts == {Flatten(f) : f \in UNION {[1..n -> TwicePieces] : n \in 1..MaxSegments}}

\* parameter maps: a number, the empty string, a value that holds the
\* placeholder of its own name, a value that holds the placeholder of another
TwiceParams ==
    { Put(EmptyMap, id, <<"4","2">>),
      Put(EmptyMap, id, <<>>),
      Put(EmptyMap, id, <<":","i","d","2">>),
      Put(Put(EmptyMap, id, <<"{","o","r","g","}">>), org, <<"7">>) }

InitTwice ==
    /\ ScanOff
    /\ \E text \in TwiceTexts, vp \in TwiceParams :
          inp = [kind |-> "text", text |-> text, params |-> vp]
    /\ out = NoValue

\* BuildSwappedURL(text, nil, params): the placeholders are substituted, and
\* there is no value of an attacker to replace
SubstituteOnce ==
    /\ inp.kind = "text" /\ out = NoValue
    /\ \E r \in BuildSwappedURL(inp.text, EmptyMap, inp.params) :
          out' = [kind |-> "once", text |-> r]
    /\ UNCHANGED <<scanVars, inp>>

\* the same call on the string that the first call returned
SubstituteAgain ==
    /\ out.kind = "once"
    /\ \E r \in BuildSwappedURL(out.text, EmptyMap, inp.params) :
          out' = [kind |-> "twice", once |-> out.text, text |-> r]
    /\ UNCHANGED <<scanVars, inp>>

NextTwice == SubstituteOnce \/ SubstituteAgain

SpecTwice == InitTwice /\ [][NextTwice]_vars

(* C11: for every string and every parameter map, the substitution of the   *)
(* placeholders applied a second time with the same map returns the string  *)
(* that the first application returned.                                     *)
C11_Idempotent ==
    out.kind = "twice" => out.text = out.once

\* "/u/:id" with id = ":id2" is "/u/:id2" after one substitution and
\* "/u/:id22" after two
C11_Witness ==
    /\ out.kind = "twice"
    /\ inp.text = <<"/","u","/",":","i","d">>
    /\ inp.params = Put(EmptyMap, id, <<":","i","d","2">>)
    /\ out.once = <<"/","u","/",":","i","d","2">>
    /\ out.text = <<"/","u","/",":","i","d","2","2">>

(* What the substitution does achieve: with a value that is a number, the   *)
(* second application changes nothing.                                      *)
C11_IdempotentOnNumbers ==
    (out.kind = "twice" /\ inp.params = Put(EmptyMap, id, <<"4","2">>))
        => out.text = out.once

-----------------------------------------------------------------------------
(* The replacement of the values of the attacker: strategy 2 of             *)
(* BuildSwappedURL, the second loop of BuildSwappedBody                     *)

MaxPieces == 3

\* the pieces of the texts: path, query and JSON text around the value 9
LiteralPieces ==
    { <<"/","u","/">>, <<"9">>, <<"/">>, <<"?","i","d","=">>, <<"&">>, <<"\"">>,
      <<"{","i","d","}">> }

LiteralTexts == {Flatten(f) : f \in UNION {[1..n -> LiteralPieces] : n \in 1..MaxPieces}}

LiteralAttackers ==
    { Put(EmptyMap, id, <<"9">>),
      Put(Put(EmptyMap, id, <<"9">>), org, <<"5">>) }

LiteralVictims ==
    { EmptyMap,
      Put(EmptyMap, id, <<"9">>),
      Put(EmptyMap, id, <<"4","2">>),
      Put(EmptyMap, org, <<"9">>),
      Put(Put(EmptyMap, id, <<"9">>), org, <<"5">>) }

InitLiteral ==
    /\ ScanOff
    /\ \E text \in LiteralTexts, ap \in LiteralAttackers, vp \in LiteralVictims :
          inp = [kind |-> "build",
                 req |-> [Method |-> <<"GET">>, URL |-> text, Body |-> text,
                          Headers |-> EmptyMap],
                 user |-> [Name |-> "bob", Headers |-> EmptyMap, Params |-> vp],
                 attacker |-> ap]
    /\ out = NoValue

NextLiteral == SwapURL \/ SwapBody

SpecLiteral == InitLiteral /\ [][NextLiteral]_vars

\* the two identities have the same value for every parameter name they share
Indistinguishable(ap, vp) == \A k \in (DOMAIN ap) \cap (DOMAIN vp) : ap[k] = vp[k]

(* C12: when the attacker and the victim have the same value for every      *)
(* parameter name they share, the replacement of the attacker's values      *)
(* changes nothing: BuildSwappedURL and BuildSwappedBody return the text    *)
(* with its placeholders substituted, and a text without a placeholder of   *)
(* the victim as it was.                                                    *)
C12_LiteralNoOp ==
    (out.kind \in {"BuildSwappedURL", "BuildSwappedBody"}
       /\ Indistinguishable(inp.attacker, inp.user.Params)) =>
        /\ out.text \in {ReplacePlaceholders(inp.req.URL, inp.user.Params, o) :
                             o \in Orders(DOMAIN inp.user.Params)}
        /\ id \notin DOMAIN inp.user.Params => out.text = inp.req.URL

\* the attacker has id = 9 and org = 5, the victim id = 9 only: "/u/9/" comes
\* out of BuildSwappedURL as it went in
C12_Witness ==
    /\ out.kind = "BuildSwappedURL"
    /\ inp.attacker = Put(Put(EmptyMap, id, <<"9">>), org, <<"5">>)
    /\ inp.user.Params = Put(EmptyMap, id, <<"9">>)
    /\ inp.req.URL = <<"/","u","/","9","/">>
    /\ out.text = inp.req.URL

-----------------------------------------------------------------------------
(* The findings of a scan, test by test.  The scans of three identities and *)
(* two templates, sequential and with two workers, against the servers with *)
(* at most one fault of transport.                                          *)

PartialUsers == SubSeq(UserNames, 1, 3)
PartialRequests == {<<RequestPool[1]>>, <<RequestPool[1], RequestPool[3]>>}

\* two workers share the cross tests of one template, one worker runs those
\* of two
PartialWorkers(reqs) == IF Len(reqs) = 1 THEN 2 ELSE 1

InitPartial ==
    /\ mode \in {"seq", "conc"}
    /\ users = PartialUsers
    /\ requests \in PartialRequests
    /\ workersArg = (IF mode = "conc" THEN PartialWorkers(requests) ELSE 1)
    /\ server \in FaultyServers(requests, users)
    /\ pc = "capture" /\ ti = 1 /\ ai = 0 /\ vi = 0
    /\ baselines = EmptyMap
    /\ findings = <<>>
    /\ jobs = <<>> /\ jobsClosed = FALSE
    /\ results = <<>> /\ resultsClosed = FALSE
    /\ pool = EmptyBag /\ wg = 0
    /\ captured = 0 /\ recorded = {} /\ matrix = <<>> /\ wire = NoRequest
    /\ nNoAuth = 0 /\ unslept = FALSE /\ prior = <<>>
    /\ executed = EmptyBag /\ collected = 0
    /\ inp = NoValue /\ out = NoValue

SpecPartial == InitPartial /\ [][Next]_vars

\* the tests of a scan: every ordered pair of distinct identities and the
\* test without credentials, for every request of the list
AllTests ==
    {[kind |-> "cross", t |-> t, attacker |-> p[1], victim |-> p[2]] :
        t \in 1..T, p \in OrderedPairs}
    \cup {[kind |-> "noauth", t |-> t, attacker |-> "", victim |-> ""] : t \in 1..T}

\* what one test finds against the server of the run, given the baselines that
\* the capture returned: a sequence of 0 or 1 finding
FoundBy(x) ==
    LET req == requests[x.t] IN
    IF x.kind = "noauth"
    THEN LET o == NoAuthAnswer(server, req)
         IN  IF o.kind = "resp" /\ o.status = 200 /\ Len(o.body) > 50
                /\ ~Contains(o.body, UNAUTHORIZED) /\ ~Contains(o.body, FORBIDDEN)
             THEN <<NoAuthFinding(req, o.status, Len(o.body))>>
             ELSE <<>>
    ELSE LET o == CrossAnswer(server, req, x.attacker, x.victim)
             base == BaselineOf(baselines, Endpoint(req), x.victim).BodySize
         IN  IF ~Present(Endpoint(req), x.victim) \/ o.kind # "resp" THEN <<>>
             ELSE IF o.status \notin {200, 201} THEN <<>>
             ELSE IF o.size - base < 50 /\ base - o.size < 50 /\ base > 0
                  THEN <<CrossFinding("CRITICAL", req, x.attacker, x.victim,
                                      o.status, o.size, base)>>
             ELSE IF o.size > 50
                  THEN <<CrossFinding("HIGH", req, x.attacker, x.victim,
                                      o.status, o.size, base)>>
             ELSE <<>>

\* a test that fails: no baseline of the victim, no request built, or a
\* transport error
Fails(x) ==
    LET req == requests[x.t] IN
    IF x.kind = "noauth" THEN NoAuthAnswer(server, req).kind # "resp"
    ELSE \/ ~Present(Endpoint(req), x.victim)
         \/ CrossAnswer(server, req, x.attacker, x.victim).kind # "resp"

\* the finding names the request and the identities of the test
FindingOf(f, x) ==
    /\ f.Endpoint = requests[x.t].URL
    /\ f.Method = requests[x.t].Method
    /\ IF x.kind = "noauth" THEN Len(f.Description) = 1
       ELSE /\ Len(f.Description) = 3
            /\ f.Description[2] = x.attacker
            /\ f.Description[3] = x.victim

(* C13: a missing baseline, a request that cannot be built or a transport   *)
(* error makes one test find nothing and changes no other test: in both     *)
(* modes the scan goes through every baseline capture and every no-auth     *)
(* test, and the list it returns holds, for every test of the matrix, what  *)
(* that test finds, no more and no less; a failed test finds nothing.       *)
C13_PartialResults ==
    pc = "done" =>
        /\ captured = T * K
        /\ nNoAuth = T
        /\ \A f \in {findings[i] : i \in DOMAIN findings}
                   \cup UNION {{FoundBy(x)[i] : i \in DOMAIN FoundBy(x)} : x \in AllTests} :
               Cardinality({i \in DOMAIN findings : findings[i] = f})
                  = Cardinality({x \in AllTests : FoundBy(x) = <<f>>})
        /\ \A x \in AllTests : Fails(x) =>
               \A i \in DOMAIN findings : ~FindingOf(findings[i], x)

\* three identities, two requests without authorisation check, one worker:
\* alice's request for bob's object under the first URL is lost and the
\* no-auth request of the first URL gets a transport error.  The scan returns
\* the findings of the 11 other cross tests, that of alice against carol
\* under the first URL among them, and the no-auth finding of the second URL
C13_Witness ==
    /\ mode = "conc" /\ pc = "done" /\ K = 3 /\ T = 2
    /\ \A t \in 1..T : server.authz[requests[t].URL] = "idor"
    /\ server.down = {} /\ server.lost = {<<requests[1].URL, "alice", "bob">>}
    /\ server.anon[requests[1].URL] = "down"
    /\ server.anon[requests[2].URL] = "public"
    /\ Len(findings) = 12
    /\ \E i \in DOMAIN findings :
           FindingOf(findings[i], [kind |-> "cross", t |-> 1,
                                   attacker |-> "alice", victim |-> "carol"])
    /\ \E i \in DOMAIN findings :
           FindingOf(findings[i], [kind |-> "noauth", t |-> 2,
                                   attacker |-> "", victim |-> ""])

\* the same lost request in the scan of one template by two workers, and in
\* the sequential scan: the five other cross tests are reported
C13_WitnessTwoWorkers ==
    /\ mode = "conc" /\ pc = "done" /\ K = 3 /\ T = 1 /\ workersArg = 2
    /\ server.authz[requests[1].URL] = "idor"
    /\ server.lost = {<<requests[1].URL, "alice", "bob">>}
    /\ server.anon[requests[1].URL] = "private"
    /\ Len(findings) = 5

C13_WitnessSequential ==
    /\ mode = "seq" /\ pc = "done" /\ K = 3 /\ T = 2
    /\ \A t \in 1..T : server.authz[requests[t].URL] = "idor"
    /\ server.down = {"bob"} /\ server.anon[requests[1].URL] = "down"
    /\ server.anon[requests[2].URL] = "public"
    /\ \E i \in DOMAIN findings :
           FindingOf(findings[i], [kind |-> "cross", t |-> 1,
                                   attacker |-> "alice", victim |-> "carol"])
    /\ \A i \in DOMAIN findings : "bob" \notin {findings[i].Description[j] :
                                                  j \in DOMAIN findings[i].Description}

-----------------------------------------------------------------------------
(* The jobs of the pool *)

JobId(job) == <<job.t, job.Attacker, job.Victim>>

Queued == {JobId(jobs[i]) : i \in DOMAIN jobs}

Running == {JobId(job) : job \in InFlight}

Executed == BagToSet(executed)

\* the number of workers at the send to the results channel
Delivering == BagCardinality([x \in {y \in DOMAIN pool : y.pc = "send"} |-> pool[x]])

(* C14: in the concurrent mode every queued job is received by one worker   *)
(* and executed once: at every moment a job that was queued is in the       *)
(* queue, with one worker, or executed once, and in one of these only; the  *)
(* results delivered are one per executed job, and when the collector has   *)
(* finished it has received one result for every job that was queued.       *)
C14_ExactlyOnce ==
    mode = "conc" =>
        /\ \A j \in Executed : executed[j] = 1
        /\ \A x \in DOMAIN pool : x.pc \in {"exec", "wait"} => pool[x] = 1
        /\ Len(jobs) = Cardinality(Queued)
        /\ Tested = Queued \cup Running \cup Executed
        /\ Queued \cap Running = {} /\ Queued \cap Executed = {}
        /\ Running \cap Executed = {}
        /\ BagCardinality(executed) = Delivering + Len(results) + collected
        /\ pc \in {"noauth", "done"} =>
              /\ Executed = Tested
              /\ collected = Len(matrix)
              /\ results = <<>>

\* two workers, two requests, two identities: four jobs were queued and
\* executed, four results were received
C14_Witness ==
    /\ mode = "conc" /\ pc = "done" /\ workersArg = 2
    /\ Len(matrix) = 4 /\ collected = 4 /\ BagCardinality(executed) = 4

-----------------------------------------------------------------------------
(* The goroutines of a scan under a fair scheduler *)

\* the goroutine that calls the scan: captures, queues, collects, tests
\* without authentication
MainGoroutine ==
    \/ CaptureTemplate \/ CaptureUser
    \/ SeqCaptureReturn \/ SeqSkipSelf \/ SeqCrossTest \/ SeqNoAuth
    \/ ConcCaptureReturn \/ StartWorkers
    \/ QueueSkipSelf \/ QueueSkipNoBaseline \/ QueueJob \/ CloseJobs
    \/ Collect \/ CollectEnd \/ ConcNoAuth

\* go func() { wg.Wait(); close(results) }()
WaiterGoroutine == CloseResults

\* go s.worker(jobs, results, &wg), numWorkers times
WorkerGoroutines ==
    \/ WorkerDequeue
    \/ \E job \in Dequeued : WorkerRequest(job)
    \/ \E job \in Awaited : WorkerAnswer(job)
    \/ \E f \in Held : WorkerDeliver(f)
    \/ WorkerSleep
    \/ WorkerExit

\* a goroutine that can take a step is scheduled in the end; a request that
\* was sent is answered or fails (the step WorkerAnswer)
SpecFair ==
    /\ Init /\ [][Next]_vars
    /\ WF_vars(MainGoroutine)
    /\ WF_vars(WaiterGoroutine)
    /\ WF_vars(WorkerGoroutines)

AllExited == \A x \in DOMAIN pool : x.pc = "exited"

(* C15: under a fair scheduler a concurrent scan returns, whatever the      *)
(* number of workers, identities and templates: the job queue is closed and *)
(* drained, every worker has exited, the result queue is closed and         *)
(* drained, and the scan is done. No state before that is a deadlock.       *)
C15_Terminates ==
    mode = "conc" =>
        <>(/\ pc = "done"
           /\ jobsClosed /\ jobs = <<>>
           /\ AllExited /\ BagCardinality(pool) = W /\ wg = 0
           /\ resultsClosed /\ results = <<>>)

\* five workers (the argument is 0), one template, two identities: the scan
\* has returned and the five workers have exited
C15_Witness ==
    /\ mode = "conc" /\ pc = "done" /\ workersArg = 0
    /\ Len(users) = 2 /\ Len(requests) = 1
    /\ BagCardinality(pool) = 5 /\ AllExited /\ resultsClosed

\* no identities and no templates: the scan has returned as well
C15_WitnessEmpty ==
    /\ mode = "conc" /\ pc = "done" /\ users = <<>> /\ requests = <<>>
    /\ AllExited /\ resultsClosed

-----------------------------------------------------------------------------
(* The tests without authentication of the concurrent mode *)

NoAuthStarted == pc \in {"noauth", "done"} \/ nNoAuth > 0 \/ wire.kind = "noauth"

(* C16: in the concurrent mode no request without authentication is sent    *)
(* before every worker has exited and every result of the pool has been     *)
(* collected; the requests without authentication are sent one by one in    *)
(* the order of the templates, and no worker holds a job meanwhile.         *)
C16_NoAuthAfterPool ==
    (mode = "conc" /\ NoAuthStarted) =>
        /\ pc \in {"noauth", "done"}
        /\ BagCardinality(pool) = W /\ AllExited
        /\ Running = {} /\ jobs = <<>> /\ jobsClosed
        /\ results = <<>> /\ resultsClosed
        /\ collected = Len(matrix) /\ BagCardinality(executed) = Len(matrix)
        /\ nNoAuth = ti - 1
        /\ wire.kind \in {"none", "noauth"}
        /\ wire.kind = "noauth" => wire.t = nNoAuth

\* the request without authentication of the second template is on the wire
\* after four jobs of two workers
C16_Witness ==
    /\ mode = "conc" /\ workersArg = 2 /\ Len(matrix) = 4
    /\ wire.kind = "noauth" /\ wire.t = 2 /\ nNoAuth = 2

-----------------------------------------------------------------------------
(* runScan: from the command line to the exit of the process *)

\* a file named on the command line: not named, readable and well formed,
\* or unreadable or malformed
Files == {"", "good", "bad"}

\* the flags and the files of one run of the command; users and requests
\* are the numbers of identities and templates that the files hold
\* the values of --timeout, in seconds; 30 is the default of the flag
Timeouts == {5, 30, 60}

Commands ==
    [kind : {"command"},
     collectionFile : Files, openapiFile : Files, harFile : Files,
     usersFile : {"good", "bad"}, proxyURL : Files, outputFile : Files,
     users : 0..MaxUsers, requests : 0..MaxRequests,
     timeoutSecs : Timeouts]

\* timeout is the Timeout of the client of the scanner, 0 before NewScanner
AtStep(at, sent, timeout) ==
    [kind |-> "run", pc |-> at, sent |-> sent, code |-> 0, timeout |-> timeout]

\* os.Exit(code), or the return of runScan (code 0)
Exited(code, sent, timeout) ==
    [kind |-> "run", pc |-> "exit", sent |-> sent, code |-> code, timeout |-> timeout]

\* client: &http.Client{Timeout: 30 * time.Second}
ClientTimeout == 30

\* the requests of a scan at most: baselines, cross tests, tests without
\* authentication
MaxSent(k, t) == t * k + t * k * (k - 1) + t

InitRun ==
    /\ ScanOff
    /\ inp \in Commands
    /\ out = AtStep("validate", 0, 0)

\* if collectionFile == "" && openapiFile == "" && harFile == "" { os.Exit(1) }
ValidateInput ==
    /\ out.kind = "run" /\ out.pc = "validate"
    /\ out' = IF inp.collectionFile = "" /\ inp.openapiFile = "" /\ inp.harFile = ""
              THEN Exited(1, out.sent, out.timeout)
              ELSE AtStep("users", out.sent, out.timeout)
    /\ UNCHANGED <<scanVars, inp>>

\* users, err := loadUsers(usersFile); if err != nil { os.Exit(1) }
LoadUsers ==
    /\ out.kind = "run" /\ out.pc = "users"
    /\ out' = IF inp.usersFile = "bad"
              THEN Exited(1, out.sent, out.timeout)
              ELSE AtStep("requests", out.sent, out.timeout)
    /\ UNCHANGED <<scanVars, inp>>

\* the first source that is named is parsed: collection, OpenAPI, HAR
SourceFile(cmd) ==
    IF cmd.collectionFile # "" THEN cmd.collectionFile
    ELSE IF cmd.openapiFile # "" THEN cmd.openapiFile
    ELSE cmd.harFile

\* requests, err = parse...(file); if err != nil { os.Exit(1) }
LoadRequests ==
    /\ out.kind = "run" /\ out.pc = "requests"
    /\ out' = IF SourceFile(inp) = "bad"
              THEN Exited(1, out.sent, out.timeout)
              ELSE AtStep("new", out.sent, out.timeout)
    /\ UNCHANGED <<scanVars, inp>>

\* scanner := NewScanner(users, requests)
CreateScanner ==
    /\ out.kind = "run" /\ out.pc = "new"
    /\ out' = AtStep("proxy", out.sent, ClientTimeout)
    /\ UNCHANGED <<scanVars, inp>>

\* if proxyURL != "" { if err := scanner.SetProxy(proxyURL); err != nil { os.Exit(1) } }
ConfigureProxy ==
    /\ out.kind = "run" /\ out.pc = "proxy"
    /\ out' = IF inp.proxyURL = "bad"
              THEN Exited(1, out.sent, out.timeout)
              ELSE AtStep("scan", out.sent, out.timeout)
    /\ UNCHANGED <<scanVars, inp>>

\* findings = scanner.RunWithBaselineConcurrent(workers) or RunWithBaseline():
\* the scan returns, having sent the requests that could be built
RunTheScan ==
    /\ out.kind = "run" /\ out.pc = "scan"
    /\ \E n \in 0..MaxSent(inp.users, inp.requests) :
          out' = AtStep("output", n, out.timeout)
    /\ UNCHANGED <<scanVars, inp>>

\* the results are printed; if outputFile != "" { if err := os.WriteFile(...);
\* err != nil { os.Exit(1) } }; the summary is printed and runScan returns
OutputResults ==
    /\ out.kind = "run" /\ out.pc = "output"
    /\ out' = IF inp.outputFile = "bad"
              THEN Exited(1, out.sent, out.timeout)
              ELSE Exited(0, out.sent, out.timeout)
    /\ UNCHANGED <<scanVars, inp>>

NextRun ==
    \/ ValidateInput
    \/ LoadUsers
    \/ LoadRequests
    \/ CreateScanner
    \/ ConfigureProxy
    \/ RunTheScan
    \/ OutputResults

SpecRun == InitRun /\ [][NextRun]_vars

(* C17: the process exits with a code other than zero only before any       *)
(* request has been sent; once the scan has sent requests, runScan does not *)
(* end in an exit code other than zero.                                     *)
C17_FatalBeforeNetwork ==
    (out.kind = "run" /\ out.pc = "exit" /\ out.code # 0) => out.sent = 0

\* the scan has sent requests, the output file cannot be written: exit code 1
C17_Witness ==
    /\ out.kind = "run" /\ out.pc = "exit" /\ out.code = 1 /\ out.sent > 0
    /\ inp.outputFile = "bad"

\* what does hold: after requests were sent, the only exit with a code other
\* than zero is that of an output file that cannot be written
C17_FatalAfterNetworkIsOutput ==
    (out.kind = "run" /\ out.pc = "exit" /\ out.code # 0 /\ out.sent > 0) =>
        /\ inp.outputFile = "bad" /\ inp.usersFile = "good"
        /\ SourceFile(inp) = "good" /\ inp.proxyURL # "bad"

-----------------------------------------------------------------------------
(* The end-to-end scenario *)

\* GET /api/users/{user_id}
ScenarioTemplate == RequestPool[1]

\* alice (user_id=123) and bob (user_id=456), the one template, either mode
InitScenario ==
    /\ mode \in {"seq", "conc"}
    /\ users = <<"alice", "bob">>
    /\ requests = <<ScenarioTemplate>>
    /\ workersArg \in IF mode = "conc" THEN WorkerArgs(requests) ELSE {1}
    /\ pc = "capture" /\ ti = 1 /\ ai = 0 /\ vi = 0
    /\ baselines = EmptyMap
    /\ findings = <<>>
    /\ jobs = <<>> /\ jobsClosed = FALSE
    /\ results = <<>> /\ resultsClosed = FALSE
    /\ pool = EmptyBag /\ wg = 0
    /\ captured = 0 /\ recorded = {} /\ matrix = <<>> /\ wire = NoRequest
    /\ nNoAuth = 0 /\ unslept = FALSE /\ prior = <<>>
    /\ executed = EmptyBag /\ collected = 0
    /\ server = ScenarioServer
    /\ inp = NoValue /\ out = NoValue

SpecScenario == InitScenario /\ [][Next]_vars

\* a CRITICAL finding of alice against bob on the template
ScenarioFinding(f) ==
    /\ f.Severity = "CRITICAL"
    /\ f.Endpoint = ScenarioTemplate.URL /\ f.Method = ScenarioTemplate.Method
    /\ Len(f.Description) = 3
    /\ f.Description[2] = "alice" /\ f.Description[3] = "bob"
    /\ f.Evidence = <<200, 198, 200>>

(* C18: alice and bob, the template GET /api/users/{user_id}, bob's own     *)
(* answer 200 with 200 bytes, alice's request for bob's resource answered   *)
(* 200 with 198 bytes: the list that the scan returns holds one CRITICAL    *)
(* finding of alice against bob, whose description names alice and bob and  *)
(* whose endpoint and method are those of the template.                     *)
C18_ScenarioCritical ==
    (server = ScenarioServer /\ pc = "done") =>
        /\ Cardinality({i \in DOMAIN findings : ScenarioFinding(findings[i])}) = 1
        /\ \A i \in DOMAIN findings :
              (Len(findings[i].Description) = 3
               /\ findings[i].Description[2] = "alice"
               /\ findings[i].Description[3] = "bob") => ScenarioFinding(findings[i])

\* the concurrent scan of the scenario has returned the finding
C18_Witness ==
    /\ server = ScenarioServer /\ pc = "done" /\ mode = "conc"
    /\ \E i \in DOMAIN findings : ScenarioFinding(findings[i])

\* the sequential scan of the scenario has returned the finding
C18_WitnessSequential ==
    /\ server = ScenarioServer /\ pc = "done" /\ mode = "seq"
    /\ \E i \in DOMAIN findings : ScenarioFinding(findings[i])

-----------------------------------------------------------------------------
(* The size of the pool *)

\* the workers that hold a job: the jobs that are executed at this moment
Busy == {x \in DOMAIN pool : x.pc \in {"exec", "wait"}}

BusyCount == BagCardinality([x \in Busy |-> pool[x]])

(* C19: RunWithBaselineConcurrent(N) starts N workers when N > 0 and five   *)
(* when N <= 0, no worker before the baselines are captured and none later; *)
(* at every moment at most that many jobs are being executed.               *)
C19_BoundedPool ==
    mode = "conc" =>
        LET n == IF workersArg > 0 THEN workersArg ELSE 5 IN
        /\ pc \in {"capture", "spawn"} => pool = EmptyBag
        /\ pc \notin {"capture", "spawn"} => BagCardinality(pool) = n
        /\ BusyCount <= n
        /\ wg <= n

\* two workers, four jobs: both workers execute a job while a third job waits
\* in the queue
C19_Witness ==
    /\ mode = "conc" /\ workersArg = 2 /\ BagCardinality(pool) = 2
    /\ BusyCount = 2 /\ Len(jobs) >= 1

\* the argument 0: five workers, two of them execute the two jobs
C19_WitnessDefault ==
    /\ mode = "conc" /\ workersArg = 0 /\ BagCardinality(pool) = 5
    /\ BusyCount = 2

-----------------------------------------------------------------------------
(* The capacity of the channels *)

\* the producer is at a pair of the loops and can take its step
ProducerCanStep == ENABLED (QueueSkipSelf \/ QueueSkipNoBaseline \/ QueueJob)

\* every worker that holds a job can deliver its result
WorkersCanDeliver == \A f \in Held : ENABLED WorkerDeliver(f)

(* C20: the jobs queued are never more than templates x identities x        *)
(* identities, and neither are the jobs nor the results in their channel;   *)
(* the producer is never blocked at a send and no worker is blocked at the  *)
(* delivery of a result, the collector reading or not.                      *)
C20_NeverBlocks ==
    mode = "conc" =>
        LET cap == Len(requests) * Len(users) * Len(users) IN
        /\ Len(matrix) <= cap
        /\ Len(jobs) <= cap
        /\ Len(results) <= cap
        /\ pc = "queue" => ProducerCanStep
        /\ WorkersCanDeliver

\* the four results of four jobs are in the channel and the collector has
\* not read one
C20_Witness ==
    /\ mode = "conc" /\ Len(matrix) = 4 /\ Len(results) = 4 /\ collected = 0

\* four jobs are in the channel, the producer has finished, no worker has
\* received one
C20_WitnessJobs ==
    /\ mode = "conc" /\ Len(matrix) = 4 /\ Len(jobs) = 4 /\ pc = "close"

\* a result is delivered while the producer is still in its loops
C20_WitnessEarly ==
    /\ mode = "conc" /\ pc = "queue" /\ Len(results) >= 1 /\ Busy # {}

-----------------------------------------------------------------------------
(* The list of findings, step by step *)

\* the list is the old list, or the old list and one finding at its end
GrowsAtEnd ==
    \/ findings' = findings
    \/ /\ Len(findings') = Len(findings) + 1
       /\ SubSeq(findings', 1, Len(findings)) = findings

\* a step of a worker: a job is received, executed, or the worker exits
WorkerStep == pool' # pool /\ pool # EmptyBag

\* a step of the collector of the concurrent mode, or of its tests without
\* authentication, which the same goroutine makes
CollectorStep == collected' = collected + 1 \/ nNoAuth' = nNoAuth + 1

(* C21: in every step of a scan the list of findings is unchanged or one    *)
(* finding longer at its end, the findings recorded before are kept as they *)
(* are; a step of a worker does not change the list and puts its result in  *)
(* the result queue, and in the concurrent mode only the collector extends  *)
(* the list.                                                                *)
C21_AppendOnly ==
    [][/\ GrowsAtEnd
       /\ WorkerStep => findings' = findings
       /\ executed' # executed => Delivering' = Delivering + 1
       /\ Delivering' < Delivering =>
              /\ Len(results') = Len(results) + 1
              /\ results'[Len(results')].Finding \in Held
       /\ (mode = "conc" /\ findings' # findings) => (CollectorStep /\ ~WorkerStep)]_vars

\* the collector has recorded two different findings of two workers
C21_Witness ==
    /\ mode = "conc" /\ workersArg = 2 /\ pc = "collect" /\ collected >= 2
    /\ Len(findings) >= 2 /\ findings[1] # findings[2]

-----------------------------------------------------------------------------
(* The order of the sequential scan *)

IndexOf(user) == CHOOSE i \in DOMAIN users : users[i] = user

\* the place of a test in the order template, attacker, victim, with the test
\* without authentication of a template after its pairs
Rank(x) ==
    (x.t - 1) * (K * K + 1)
       + IF x.kind = "noauth" THEN K * K + 1
         ELSE (IndexOf(x.attacker) - 1) * K + IndexOf(x.victim)

CrossRank(m) == Rank([kind |-> "cross", t |-> m[1], attacker |-> m[2], victim |-> m[3]])

\* what the tests of the ranks 1..n find, in the order of the ranks
RECURSIVE FoundUpTo(_)
FoundUpTo(n) ==
    IF n = 0 THEN <<>>
    ELSE LET here == {x \in AllTests : Rank(x) = n}
         IN  FoundUpTo(n - 1) \o (IF here = {} THEN <<>> ELSE FoundBy(CHOOSE x \in here : TRUE))

(* C22: the sequential scan makes its cross tests in the order template,    *)
(* attacker, victim; the test without authentication of a template comes    *)
(* after all the cross tests of that template and before every test of the  *)
(* next one; the list returned is what the tests find in that order, a      *)
(* function of the inputs and the responses.                                *)
C22_SequentialOrder ==
    mode = "seq" =>
        /\ \A i, j \in DOMAIN matrix : i < j => CrossRank(matrix[i]) < CrossRank(matrix[j])
        /\ \A i \in DOMAIN matrix : matrix[i][1] <= nNoAuth + 1
        /\ Cardinality({i \in DOMAIN matrix : matrix[i][1] <= nNoAuth})
              = nNoAuth * K * (K - 1)
        /\ pc = "done" => findings = FoundUpTo(T * (K * K + 1))

\* two templates without authorisation check, two identities: two cross
\* findings and the no-auth finding of the first template, then those of the
\* second
C22_Witness ==
    /\ mode = "seq" /\ pc = "done" /\ Len(findings) = 6
    /\ Len(findings[2].Description) = 3 /\ Len(findings[3].Description) = 1
    /\ Len(findings[4].Description) = 3
    /\ findings[1].Description[2] = "alice" /\ findings[2].Description[2] = "bob"

-----------------------------------------------------------------------------
(* The replacement of the attacker's values, place by place *)

MaxPath == 3
MaxQuery == 2
MaxTokens == 3

\* the attacker's value of id, the victim's value, and other text
Nine == <<"9">>
FortyTwo == <<"4","2">>

PathSegments == {Nine, <<"u">>}

QueryPairs == [name : {<<"a">>}, value : {Nine, <<"1">>}]

\* a URL by its parts: the path segments, a slash at the end of the path or
\* none, the pairs of the query
Shapes ==
    [path : UNION {[1..n -> PathSegments] : n \in 1..MaxPath},
     slash : BOOLEAN,
     query : UNION {[1..n -> QueryPairs] : n \in 0..MaxQuery}]

RenderPath(path) == Flatten([i \in DOMAIN path |-> <<"/">> \o path[i]])

RenderQuery(query) ==
    Flatten([i \in DOMAIN query |->
                (IF i = 1 THEN <<"?">> ELSE <<"&">>)
                   \o query[i].name \o <<"=">> \o query[i].value])

RenderShape(sh) ==
    RenderPath(sh.path) \o (IF sh.slash THEN <<"/">> ELSE <<>>) \o RenderQuery(sh.query)

\* the URL of the shape with the victim's value at every place of the
\* attacker's: the path segments and the query values that are equal to it
SwappedShape(sh, attackerVal, victimVal) ==
    [path |-> [i \in DOMAIN sh.path |->
                  IF sh.path[i] = attackerVal THEN victimVal ELSE sh.path[i]],
     slash |-> sh.slash,
     query |-> [i \in DOMAIN sh.query |->
                  [name |-> sh.query[i].name,
                   value |-> IF sh.query[i].value = attackerVal THEN victimVal
                             ELSE sh.query[i].value]]]

\* the tokens of a body: the value in quotes, the value, other text
BodyTokens == {<<"\"">> \o Nine \o <<"\"">>, Nine, <<",">>, <<"\"","u","\"">>}

Bodies == UNION {[1..n -> BodyTokens] : n \in 1..MaxTokens}

SwappedTokens(toks, attackerVal, victimVal) ==
    [i \in DOMAIN toks |->
        IF toks[i] = attackerVal THEN victimVal
        ELSE IF toks[i] = <<"\"">> \o attackerVal \o <<"\"">>
             THEN <<"\"">> \o victimVal \o <<"\"">>
        ELSE toks[i]]

\* the attacker has id = 9, the victim id = 42; org is the same for both
CompleteAttacker == Put(Put(EmptyMap, id, Nine), org, <<"5">>)
CompleteVictim == Put(Put(EmptyMap, id, FortyTwo), org, <<"5">>)

InitComplete ==
    /\ ScanOff
    /\ \E sh \in Shapes, toks \in Bodies :
          inp = [kind |-> "build", shape |-> sh, tokens |-> toks,
                 req |-> [Method |-> <<"GET">>, URL |-> RenderShape(sh),
                          Body |-> Flatten(toks), Headers |-> EmptyMap],
                 user |-> [Name |-> "bob", Headers |-> EmptyMap, Params |-> CompleteVictim],
                 attacker |-> CompleteAttacker]
    /\ out = NoValue

NextComplete == SwapURL \/ SwapBody

SpecComplete == InitComplete /\ [][NextComplete]_vars

ExpectedURL == RenderShape(SwappedShape(inp.shape, Nine, FortyTwo))

ExpectedBody == Flatten(SwappedTokens(inp.tokens, Nine, FortyTwo))

(* C23: BuildSwappedURL returns the URL with the victim's value in every    *)
(* path segment and every query value that was the attacker's value, also   *)
(* where two such segments follow each other; BuildSwappedBody returns the  *)
(* body with the victim's value in place of every quoted attacker's value.  *)
C23_LiteralComplete ==
    /\ out.kind = "BuildSwappedURL" => out.text = ExpectedURL
    /\ out.kind = "BuildSwappedBody" => out.text = ExpectedBody

\* "/9/9/" went in, "/42/9/" came out: the second segment is still the
\* attacker's value
C23_Witness ==
    /\ out.kind = "BuildSwappedURL"
    /\ inp.req.URL = <<"/","9","/","9","/">>
    /\ out.text = <<"/","4","2","/","9","/">>

\* a segment with the attacker's value that follows another one and is
\* followed by a slash
AdjacentInPath(sh) ==
    \E i \in DOMAIN sh.path :
        /\ i > 1 /\ sh.path[i] = Nine /\ sh.path[i - 1] = Nine
        /\ (i < Len(sh.path) \/ sh.slash)

\* what does hold: the replacement is complete in the body, and in a URL
\* in which no such segment shares its slash with the one before
C23_CompleteWhenApart ==
    /\ (out.kind = "BuildSwappedURL" /\ ~AdjacentInPath(inp.shape)) => out.text = ExpectedURL
    /\ (out.kind = "BuildSwappedURL" /\ AdjacentInPath(inp.shape)) => out.text # ExpectedURL
    /\ out.kind = "BuildSwappedBody" => out.text = ExpectedBody

-----------------------------------------------------------------------------
(* The replacement of the attacker's values, applied twice *)

\* the victim's value of id: another number, or a number that holds the
\* attacker's
AgainVictims == {CompleteVictim, Put(Put(EmptyMap, id, <<"9","1">>), org, <<"5">>)}

InitAgain ==
    /\ ScanOff
    /\ \/ \E sh \in Shapes, vp \in AgainVictims :
             inp = [kind |-> "url", shape |-> sh, text |-> RenderShape(sh),
                    attacker |-> CompleteAttacker, victim |-> vp]
       \/ \E toks \in Bodies, vp \in AgainVictims :
             inp = [kind |-> "body", tokens |-> toks, text |-> Flatten(toks),
                    attacker |-> CompleteAttacker, victim |-> vp]
    /\ out = NoValue

\* BuildSwappedURL(url, attackerParams, victimParams)
SwapURLOnce ==
    /\ inp.kind = "url" /\ out = NoValue
    /\ \E r \in BuildSwappedURL(inp.text, inp.attacker, inp.victim) :
          out' = [kind |-> "once", text |-> r]
    /\ UNCHANGED <<scanVars, inp>>

\* BuildSwappedURL on the URL that the first call returned, with the same maps
SwapURLAgain ==
    /\ inp.kind = "url" /\ out.kind = "once"
    /\ \E r \in BuildSwappedURL(out.text, inp.attacker, inp.victim) :
          out' = [kind |-> "twice", once |-> out.text, text |-> r]
    /\ UNCHANGED <<scanVars, inp>>

\* BuildSwappedBody(body, attackerParams, victimParams)
SwapBodyOnce ==
    /\ inp.kind = "body" /\ out = NoValue
    /\ \E r \in BuildSwappedBody(inp.text, inp.attacker, inp.victim) :
          out' = [kind |-> "once", text |-> r]
    /\ UNCHANGED <<scanVars, inp>>

\* BuildSwappedBody on the body that the first call returned, with the same maps
SwapBodyAgain ==
    /\ inp.kind = "body" /\ out.kind = "once"
    /\ \E r \in BuildSwappedBody(out.text, inp.attacker, inp.victim) :
          out' = [kind |-> "twice", once |-> out.text, text |-> r]
    /\ UNCHANGED <<scanVars, inp>>

NextAgain == SwapURLOnce \/ SwapURLAgain \/ SwapBodyOnce \/ SwapBodyAgain

SpecAgain == InitAgain /\ [][NextAgain]_vars

(* C24: BuildSwappedURL applied to the URL it returned, and BuildSwappedBody *)
(* applied to the body it returned, with the same maps of the attacker and   *)
(* the victim, return their argument unchanged.                              *)
C24_LiteralIdempotent ==
    out.kind = "twice" => out.text = out.once

\* "/9/9/" with 9 for the attacker and 42 for the victim is "/42/9/" after
\* one call and "/42/42/" after two
C24_Witness ==
    /\ out.kind = "twice" /\ inp.kind = "url" /\ inp.victim = CompleteVictim
    /\ inp.text = <<"/","9","/","9","/">>
    /\ out.once = <<"/","4","2","/","9","/">>
    /\ out.text = <<"/","4","2","/","4","2","/">>

\* the body 9 with 9 for the attacker and 91 for the victim is 91 after one
\* call and 911 after two
C24_WitnessBody ==
    /\ out.kind = "twice" /\ inp.kind = "body" /\ inp.victim # CompleteVictim
    /\ inp.text = <<"9">>
    /\ out.once = <<"9","1">>
    /\ out.text = <<"9","1","1">>

\* what does hold: with a victim's value that does not hold the attacker's,
\* the second call changes nothing in a body, and nothing in a URL in which
\* no attacker-valued segment shares its slash with the one before
C24_IdempotentWhenApart ==
    (out.kind = "twice" /\ inp.victim = CompleteVictim) =>
        /\ inp.kind = "body" => out.text = out.once
        /\ (inp.kind = "url" /\ ~AdjacentInPath(inp.shape)) => out.text = out.once

-----------------------------------------------------------------------------
(* The delay between the requests of the orchestrating goroutine *)

\* the step sends a request of the goroutine that runs the scan: a baseline
\* request, a test without authentication, a cross test of the sequential mode
MainSends ==
    /\ wire' # wire
    /\ \/ wire'.kind \in {"baseline", "noauth"}
       \/ mode = "seq" /\ wire'.kind = "cross"

(* C25: a goroutine that has executed a request, answered or failed, sleeps *)
(* for the delay before it sends its next request: no request is sent by    *)
(* the orchestrating goroutine while its last request is not followed by a  *)
(* sleep.                                                                   *)
C25_DelayAfterEveryRequest == [][unslept => ~MainSends]_vars

\* the baseline request of alice ended in a transport error, no sleep
\* followed, and the baseline request of bob is the next statement
C25_Witness ==
    /\ pc = "capture" /\ unslept /\ captured = 1 /\ ai = 2
    /\ wire = BaselineRequest(1, "alice") /\ recorded = {}

\* what does hold: the sleep is missing only after a baseline request that
\* recorded nothing
C25_DelayAfterEveryResponse == unslept => Cardinality(recorded) < captured

-----------------------------------------------------------------------------
(* The timeout of the requests *)

(* C26: the timeout of the client with which the scan of runScan sends its  *)
(* requests is the value of --timeout.                                      *)
C26_TimeoutConfigured ==
    (out.kind = "run" /\ out.sent > 0) => out.timeout = inp.timeoutSecs

\* --timeout 5: the scan has sent its requests with a client timeout of 30
C26_Witness ==
    /\ out.kind = "run" /\ out.sent > 0 /\ inp.timeoutSecs = 5 /\ out.timeout = 30

\* what does hold: the requests are sent with the timeout that NewScanner
\* sets, whatever the value of --timeout
C26_TimeoutOfNewScanner ==
    (out.kind = "run" /\ out.sent > 0) => out.timeout = 30

-----------------------------------------------------------------------------
(* ExtractIDsFromURL *)

RECURSIVE SplitAcc(_, _, _)
SplitAcc(s, sep, cur) ==
    IF s = <<>> THEN <<cur>>
    ELSE IF Head(s) = sep THEN <<cur>> \o SplitAcc(Tail(s), sep, <<>>)
    ELSE SplitAcc(Tail(s), sep, Append(cur, Head(s)))

\* strings.Split(s, sep) for a separator of one character
Split(s, sep) == SplitAcc(s, sep, <<>>)

RECURSIVE TrimLeft(_, _)
TrimLeft(s, cutset) ==
    IF s # <<>> /\ Head(s) \in cutset THEN TrimLeft(Tail(s), cutset) ELSE s

RECURSIVE TrimRight(_, _)
TrimRight(s, cutset) ==
    IF s # <<>> /\ s[Len(s)] \in cutset
    THEN TrimRight(SubSeq(s, 1, Len(s) - 1), cutset) ELSE s

\* strings.Trim(s, cutset)
Trim(s, cutset) == TrimRight(TrimLeft(s, cutset), cutset)

DigitChars == {"0","1","2","3","4","5","6","7","8","9"}
HexChars == DigitChars \cup {"a","b","c","d","e","f"}
WordChars ==
    DigitChars \cup {"_"} \cup {LowerLetters[i] : i \in 1..26}
       \cup {UpperLetters[i] : i \in 1..26}

\* [0-9a-f]{n} matches s[i..i+n-1]
HexRun(s, i, n) == i + n - 1 <= Len(s) /\ \A k \in 0..(n - 1) : s[i + k] \in HexChars

\* [0-9a-f]{8}-[0-9a-f]{4}-[0-9a-f]{4}-[0-9a-f]{4}-[0-9a-f]{12} matches at s[i..]
UUIDAt(s, i) ==
    /\ i + 35 <= Len(s)
    /\ HexRun(s, i, 8) /\ s[i + 8] = "-"
    /\ HexRun(s, i + 9, 4) /\ s[i + 13] = "-"
    /\ HexRun(s, i + 14, 4) /\ s[i + 18] = "-"
    /\ HexRun(s, i + 19, 4) /\ s[i + 23] = "-"
    /\ HexRun(s, i + 24, 12)

\* \b before s[i]: one of s[i-1], s[i] is a word character and the other is not
WordBoundary(s, i) ==
    (i > 1 /\ s[i - 1] \in WordChars) # (i <= Len(s) /\ s[i] \in WordChars)

\* \b\d{1,10}\b matches s[i..i+n-1]
NumericAt(s, i, n) ==
    /\ i + n - 1 <= Len(s)
    /\ \A k \in 0..(n - 1) : s[i + k] \in DigitChars
    /\ WordBoundary(s, i) /\ WordBoundary(s, i + n)

\* for _, re := range idPatterns { if re.MatchString(part) ... }: a match
\* anywhere in the segment
idPatterns(part) ==
    \/ \E i \in 1..Len(part) : UUIDAt(part, i)
    \/ \E i \in 1..Len(part) : HexRun(part, i, 24)
    \/ \E i \in 1..Len(part), n \in 1..10 : NumericAt(part, i, n)

idSegmentPatterns ==
    { <<"u","s","e","r","s">>,
      <<"u","s","e","r">>,
      <<"a","c","c","o","u","n","t","s">>,
      <<"a","c","c","o","u","n","t">>,
      <<"p","r","o","f","i","l","e","s">>,
      <<"p","r","o","f","i","l","e">>,
      <<"o","r","d","e","r","s">>,
      <<"o","r","d","e","r">>,
      <<"i","t","e","m","s">>,
      <<"i","t","e","m">>,
      <<"p","o","s","t","s">>,
      <<"p","o","s","t">>,
      <<"c","o","m","m","e","n","t","s">>,
      <<"c","o","m","m","e","n","t">>,
      <<"m","e","s","s","a","g","e","s">>,
      <<"m","e","s","s","a","g","e">>,
      <<"f","i","l","e","s">>,
      <<"f","i","l","e">>,
      <<"d","o","c","u","m","e","n","t","s">>,
      <<"d","o","c","u","m","e","n","t">>,
      <<"r","e","c","o","r","d","s">>,
      <<"r","e","c","o","r","d">>,
      <<"e","n","t","r","i","e","s">>,
      <<"e","n","t","r","y">>,
      <<"c","u","s","t","o","m","e","r","s">>,
      <<"c","u","s","t","o","m","e","r">>,
      <<"p","r","o","d","u","c","t","s">>,
      <<"p","r","o","d","u","c","t">>,
      <<"i","n","v","o","i","c","e","s">>,
      <<"i","n","v","o","i","c","e">> }

\* prevPart == seg || strings.HasSuffix(prevPart, seg), for a seg of the list
SuggestsID(prevPart) ==
    \E seg \in idSegmentPatterns : prevPart = seg \/ HasSuffix(prevPart, seg)

\* as IsPlaceholderPart, for a test of the first character only
IsPlaceholderOpen(part) == HasPrefix(part, <<"{">>)

\* strings.HasPrefix(part, "{") && strings.HasSuffix(part, "}")
IsPlaceholderPart(part) == HasPrefix(part, <<"{">>) /\ HasSuffix(part, <<"}">>)

IDPattern(key, value) == [Location |-> "path", Key |-> key, Value |-> value]

\* one iteration of for i, part := range parts: the patterns it appends
ExtractAt(parts, i) ==
    IF parts[i] = <<>> THEN <<>>
    ELSE (IF i > 1 /\ SuggestsID(ToLower(parts[i - 1])) /\ idPatterns(parts[i])
          THEN <<IDPattern(ToLower(parts[i - 1]), parts[i])>> ELSE <<>>)
         \o (IF IsPlaceholderPart(parts[i])
             THEN <<IDPattern(Trim(parts[i], {"{", "}"}), parts[i])>> ELSE <<>>)

ExtractIDsFromURL(urlStr) ==
    LET parts == Split(urlStr, "/")
    IN  Flatten([i \in DOMAIN parts |-> ExtractAt(parts, i)])

MaxParts == 3

\* path segments: resource nouns and other words, numbers, tokens with a
\* number inside, hexadecimal tokens, a UUID, placeholders
PartPool ==
    { <<"u","s","e","r","s">>,
      <<"U","s","e","r","s">>,
      <<"m","y","u","s","e","r","s">>,
      <<"u","s","e","r","x">>,
      <<"a","p","i">>,
      <<>>,
      <<"1","2","3">>,
      <<"1","2","3","4","5","6","7","8","9","0","1">>,
      <<"x","-","1">>,
      <<"a","b","c">>,
      <<"1","a">>,
      <<"0","1","2","3","4","5","6","7","8","9","a","b","c","d","e","f","0","1","2","3","4","5","6","7">>,
      <<"a","0","1","2","3","4","5","6","7","8","9","a","b","c","d","e","f","0","1","2","3","4","5","6","7">>,
      <<"5","5","0","e","8","4","0","0","-","e","2","9","b","-","4","1","d","4","-","a","7","1","6","-","4","4","6","6","5","5","4","4","0","0","0","0">>,
      <<"{","i","d","}">>,
      <<"{","1","}">>,
      <<"{","{","i","d","}","}">>,
      <<"{","i","d">> }

PartLists == UNION {[1..n -> PartPool] : n \in 2..MaxParts}

\* the URL "/part/part..."
JoinParts(parts) == Flatten([i \in DOMAIN parts |-> <<"/">> \o parts[i]])

InitExtract ==
    /\ ScanOff
    /\ \E parts \in PartLists :
          inp = [kind |-> "url", parts |-> parts, url |-> JoinParts(parts)]
    /\ out = NoValue

ExtractIDs ==
    /\ inp.kind = "url" /\ out = NoValue
    /\ out' = [kind |-> "ids", patterns |-> ExtractIDsFromURL(inp.url)]
    /\ UNCHANGED <<scanVars, inp>>

NextExtract == ExtractIDs

SpecExtract == InitExtract /\ [][NextExtract]_vars

\* the segment is a UUID, a token of 24 hexadecimal characters, or a number
\* of 1 to 10 digits, and nothing else
IsIdentifier(part) ==
    \/ Len(part) = 36 /\ UUIDAt(part, 1)
    \/ Len(part) = 24 /\ HexRun(part, 1, 24)
    \/ Len(part) \in 1..10 /\ \A k \in DOMAIN part : part[k] \in DigitChars

Braced(part) ==
    Len(part) >= 1 /\ part[1] = "{" /\ part[Len(part)] = "}"

\* the word that the lower-cased segment before parts[i] equals or ends with
AfterNoun(parts, i) ==
    /\ i > 1
    /\ \E seg \in idSegmentPatterns :
          LET prev == ToLower(parts[i - 1])
          IN  Len(seg) <= Len(prev)
              /\ SubSeq(prev, Len(prev) - Len(seg) + 1, Len(prev)) = seg

\* the candidates by the neighbouring segment, in the order of the path
NeighbourCandidates(parts) ==
    Flatten([i \in DOMAIN parts |->
                IF parts[i] # <<>> /\ ~Braced(parts[i]) /\ AfterNoun(parts, i)
                   /\ IsIdentifier(parts[i])
                THEN <<<<ToLower(parts[i - 1]), parts[i]>>>> ELSE <<>>])

KeyValue(p) == <<p.Key, p.Value>>

Unbraced(p) == ~Braced(p.Value)

\* the patterns reported for segments that are no placeholders
ReportedNeighbours ==
    LET ps == SelectSeq(out.patterns, Unbraced)
    IN  [k \in DOMAIN ps |-> KeyValue(ps[k])]

(* C27: a path segment that is no placeholder is reported as a candidate    *)
(* exactly when the lower-cased segment before it equals or ends with a     *)
(* resource noun and the segment is a UUID, a token of 24 hexadecimal       *)
(* characters or a number of 1 to 10 digits; the key is the lower-cased     *)
(* segment before it, the value the segment, and it is reported once.       *)
C27_NeighbourDetection ==
    out.kind = "ids" => ReportedNeighbours = NeighbourCandidates(inp.parts)

\* "/users/x-1": the segment x-1 is reported with the key users
C27_Witness ==
    /\ out.kind = "ids"
    /\ inp.url = <<"/","u","s","e","r","s","/","x","-","1">>
    /\ out.patterns = <<IDPattern(<<"u","s","e","r","s">>, <<"x","-","1">>)>>

\* what does hold: every segment that is such an identifier after a noun is
\* reported once with that key and value, and what is reported beyond them
\* are segments after a noun that hold a digit
C27_IdentifiersDetected ==
    out.kind = "ids" =>
        LET want == NeighbourCandidates(inp.parts)
            got == ReportedNeighbours
        IN  /\ \A kv \in {want[k] : k \in DOMAIN want} :
                  Cardinality({k \in DOMAIN got : got[k] = kv})
                     = Cardinality({k \in DOMAIN want : want[k] = kv})
            /\ \A k \in DOMAIN got :
                  \E i \in DOMAIN inp.parts :
                      /\ AfterNoun(inp.parts, i)
                      /\ got[k] = <<ToLower(inp.parts[i - 1]), inp.parts[i]>>
                      /\ \E j \in DOMAIN inp.parts[i] : inp.parts[i][j] \in DigitChars
            /\ Len(got) <= Cardinality({i \in DOMAIN inp.parts : inp.parts[i] # <<>>})

\* the candidates that are placeholders, in the order of the path
PlaceholderCandidates(parts) ==
    Flatten([i \in DOMAIN parts |->
                IF Braced(parts[i])
                THEN <<<<Trim(parts[i], {"{", "}"}), parts[i]>>>> ELSE <<>>])

(* C28: every path segment that starts with { and ends with } is reported   *)
(* as a candidate, whatever the segment before it, with its name without    *)
(* the braces as key and the whole segment as value; nothing else is        *)
(* reported but the candidates by the neighbouring segment.                 *)
C28_PlaceholderDetection ==
    out.kind = "ids" =>
        LET want == PlaceholderCandidates(inp.parts)
            got == [k \in DOMAIN out.patterns |-> KeyValue(out.patterns[k])]
        IN  /\ \A kv \in {want[k] : k \in DOMAIN want} :
                  Cardinality({k \in DOMAIN got : got[k] = kv})
                     = Cardinality({k \in DOMAIN want : want[k] = kv})
            /\ \A k \in DOMAIN got :
                  \/ \E j \in DOMAIN want : want[j] = got[k]
                  \/ \E i \in DOMAIN inp.parts :
                        /\ AfterNoun(inp.parts, i)
                        /\ got[k] = <<ToLower(inp.parts[i - 1]), inp.parts[i]>>
            /\ \A k \in DOMAIN out.patterns : out.patterns[k].Location = "path"

\* "/api/{id}/{{id}}": both placeholders are reported with the key id, and
\* api is no resource noun
C28_Witness ==
    /\ out.kind = "ids"
    /\ inp.url = <<"/","a","p","i","/","{","i","d","}","/","{","{","i","d","}","}">>
    /\ out.patterns = <<IDPattern(id, <<"{","i","d","}">>), IDPattern(id, <<"{","{","i","d","}","}">>)>>

-----------------------------------------------------------------------------
(* What a scan reads and does not write *)

(* The lists of a scan of Spec: no step, in either mode, changes the list   *)
(* of identities or the list of request templates, and once                 *)
(* CaptureBaselines has returned no step changes the baselines.             *)
ScanKeepsLists ==
    [][/\ users' = users
       /\ requests' = requests
       /\ pc # "capture" => baselines' = baselines]_vars

(* The memory of a scan.  A User and an APIRequest are structs that hold    *)
(* their strings and the references of their maps (types.go:16-29): the     *)
(* range loops and the ScanJob copy the struct and share the maps.  `store` *)
(* gives the map behind every reference, and every assignment to a map      *)
(* names the reference that it writes through.                              *)

MaxOps == 2

HeadersRef(list, i) == <<list, i, "Headers">>
ParamsRef(list, i) == <<list, i, "Params">>

\* the Header of the *http.Request that http.NewRequest has made last
NewHeader == <<"httpReq", 0, "Header">>

idKey == <<"i", "d">>

\* the identities and the templates that a scanner is given
HeapUsers ==
    {<<[Name |-> "alice", Headers |-> HeaderMap("identity", uk),
        Params |-> Put(EmptyMap, idKey, <<"1">>)],
       [Name |-> "bob", Headers |-> HeaderMap("identity", {Authorization}),
        Params |-> Put(EmptyMap, idKey, <<"2">>)]>> :
        uk \in SUBSET {Authorization, ToLower(Accept)}}

HeapRequests ==
    LET first(url, tk) ==
            [Method |-> <<"GET">>, URL |-> url, Body |-> <<>>,
             Headers |-> HeaderMap("template", tk),
             Params |-> Put(EmptyMap, idKey, <<"1">>)]
        second ==
            [Method |-> <<"POST">>, URL |-> <<"/", "o">>,
             Body |-> <<"{", "i", "d", "}">>,
             Headers |-> HeaderMap("template", {Accept}), Params |-> EmptyMap]
    IN  UNION {{<<first(url, tk)>>, <<first(url, tk), second>>} :
                url \in {<<"/", "u", "/", "{", "i", "d", "}">>, <<"/", "u", "/", "1">>},
                tk \in SUBSET {Accept, <<"C", "o", "o", "k", "i", "e">>}}

\* the struct that User or APIRequest number i of a list is in memory
Struct(list, i, value) ==
    [f \in DOMAIN value |->
        IF f = "Headers" THEN HeadersRef(list, i)
        ELSE IF f = "Params" THEN ParamsRef(list, i)
        ELSE value[f]]

\* the struct with the maps that its references lead to
Value(store, struct) ==
    [f \in DOMAIN struct |->
        IF f \in {"Headers", "Params"} THEN store[struct[f]] ELSE struct[f]]

\* s.Users and s.Requests with everything that can be reached from them
Reachable(o) ==
    [Users |-> [i \in DOMAIN o.Users |-> Value(o.store, o.Users[i])],
     Requests |-> [i \in DOMAIN o.Requests |-> Value(o.store, o.Requests[i])]]

\* NewScanner(users, requests), and the scan that is run on it: Run ("plain"),
\* RunWithBaseline ("baseline") or RunWithBaselineConcurrent ("conc")
NewScanner(scanMode, us, reqs) ==
    LET given == [Users |-> us, Requests |-> reqs]
        refs == {HeadersRef(l, i) : l \in {"Users"}, i \in DOMAIN us}
                \cup {ParamsRef(l, i) : l \in {"Users"}, i \in DOMAIN us}
                \cup {HeadersRef(l, i) : l \in {"Requests"}, i \in DOMAIN reqs}
                \cup {ParamsRef(l, i) : l \in {"Requests"}, i \in DOMAIN reqs}
    IN  [kind |-> "heap", mode |-> scanMode,
         phase |-> IF scanMode = "plain" THEN "test" ELSE "capture",
         t |-> 1, u |-> 1,
         Users |-> [i \in DOMAIN us |-> Struct("Users", i, us[i])],
         Requests |-> [i \in DOMAIN reqs |-> Struct("Requests", i, reqs[i])],
         store |-> [r \in refs \cup {NewHeader} |->
                      IF r = NewHeader THEN EmptyMap ELSE given[r[1]][r[2]][r[3]]],
         baselines |-> EmptyMap, returned |-> EmptyMap,
         jobs |-> <<>>, httpReq |-> NilRequest, op |-> "NewScanner", ops |-> 0]

InitInputs ==
    /\ ScanOff
    /\ \E scanMode \in {"plain", "baseline", "conc"}, us \in HeapUsers, reqs \in HeapRequests :
          /\ inp = [kind |-> "scanner", Users |-> us, Requests |-> reqs]
          /\ out = NewScanner(scanMode, us, reqs)

\* the store after target[key] = val for every key of m, target being the map
\* behind ref
Assign(store, ref, m) ==
    [store EXCEPT ![ref] = [k \in (DOMAIN store[ref]) \cup (DOMAIN m) |->
                               IF k \in DOMAIN m THEN m[k] ELSE store[ref][k]]]

\* as HeaderReceiver, for a builder that sets the headers in the map of the
\* template: req.Headers[key] = val
HeaderReceiverTemplate(req, httpReq) == req.Headers

\* the map that httpReq.Header.Set(key, val) of buildRequest writes
HeaderReceiver(req, httpReq) == httpReq.Header

\* the *http.Request of a built request r, its Header newly made
Made(r) == [Method |-> r.Method, URL |-> r.URL, Body |-> r.Body, Header |-> NewHeader]

\* s.buildRequest(req, user, params) in memory: what it returns and the store
\* it leaves.  url and body are local strings; the two loops over the
\* headers write through httpReq.Header.Set
buildRequestIn(store, req, user, params) ==
    {IF r = NilRequest THEN [store |-> store, httpReq |-> NilRequest]
     ELSE [store |-> Assign([store EXCEPT ![NewHeader] = EmptyMap],
                            HeaderReceiver(req, Made(r)), r.Header),
           httpReq |-> Made(r)] :
        r \in buildRequest(Value(store, req), Value(store, user), store[params])}

\* s.buildRequestNoAuth(req) in memory
buildRequestNoAuthIn(store, req) ==
    {IF r = NilRequest THEN [store |-> store, httpReq |-> NilRequest]
     ELSE [store |-> Assign([store EXCEPT ![NewHeader] = EmptyMap], NewHeader, r.Header),
           httpReq |-> Made(r)] :
        r \in buildRequestNoAuth(Value(store, req))}

\* s.buildRequestWithSwap(req, attacker, victim) in memory: the URL and the
\* body of BuildSwappedURL and BuildSwappedBody, then the headers of the
\* attacker and those of the template that the attacker does not give
buildRequestWithSwapIn(store, req, attacker, victim) ==
    LET template == Value(store, req)
        from == Value(store, attacker)
        to == Value(store, victim)
    IN  {IF ~NewRequestOk(template.Method, b.url)
         THEN [store |-> store, httpReq |-> NilRequest]
         ELSE [store |-> Assign([store EXCEPT ![NewHeader] = EmptyMap], NewHeader, b.h),
               httpReq |-> [Method |-> template.Method, URL |-> b.url, Body |-> b.body,
                            Header |-> NewHeader]] :
            b \in {[url |-> x, body |-> y, h |-> h2] :
                     x \in BuildSwappedURL(template.URL, from.Params, to.Params),
                     y \in BuildSwappedBody(template.Body, from.Params, to.Params),
                     h2 \in UNION {SetEach(h1, template.Headers,
                                           {k \in DOMAIN template.Headers :
                                               k \notin DOMAIN from.Headers}) :
                                     h1 \in SetEach(EmptyMap, from.Headers,
                                                    DOMAIN from.Headers)}}}

Scanning == inp.kind = "scanner" /\ out.kind = "heap"

Testing(scanMode) ==
    /\ Scanning /\ out.mode = scanMode /\ out.phase = "test" /\ out.ops < MaxOps

\* one iteration of the inner loop of CaptureBaselines (part_002:29-54), with
\* baselines[endpoint] = make(...) (27) before the first identity and return
\* baselines (57) after the last iteration
HeapCapture ==
    /\ Scanning /\ out.phase = "capture"
    /\ LET req == out.Requests[out.t]
           user == out.Users[out.u]
           endpoint == Endpoint(req)
           made == IF out.u = 1 THEN Put(out.baselines, endpoint, EmptyMap)
                   ELSE out.baselines
           last == out.t = Len(out.Requests) /\ out.u = Len(out.Users)
       IN  \E b \in buildRequestIn(out.store, req, user, user.Params),
              answer \in {"err", "resp"} :
              LET bl == IF b.httpReq # NilRequest /\ answer = "resp"
                        THEN [made EXCEPT ![endpoint] =
                                 Put(@, user.Name, [StatusCode |-> 200, BodySize |-> 200])]
                        ELSE made
              IN  out' = [out EXCEPT !.store = b.store, !.httpReq = b.httpReq,
                                     !.baselines = bl,
                                     !.returned = IF last THEN bl ELSE @,
                                     !.phase = IF last THEN "test" ELSE @,
                                     !.u = IF out.u = Len(out.Users) THEN 1 ELSE @ + 1,
                                     !.t = IF out.u = Len(out.Users) THEN @ + 1 ELSE @,
                                     !.op = "CaptureBaselines"]
    /\ UNCHANGED <<scanVars, inp>>

\* testCrossUserAccess(req, user1, user2) of Run (types.go:100, 117-119)
HeapCrossAccess(t, i, j) ==
    /\ Testing("plain") /\ i # j
    /\ \E b \in buildRequestIn(out.store, out.Requests[t], out.Users[i],
                               out.Users[j].Params) :
          out' = [out EXCEPT !.store = b.store, !.httpReq = b.httpReq,
                             !.op = "testCrossUserAccess", !.ops = @ + 1]
    /\ UNCHANGED <<scanVars, inp>>

\* testCrossUserWithBaseline(req, attacker, victim, baselines) of
\* RunWithBaseline (part_002:112-126): the lookup of the baseline, then the
\* swapped request
HeapCrossSwap(t, i, j) ==
    /\ Testing("baseline") /\ out.Users[i].Name # out.Users[j].Name
    /\ LET req == out.Requests[t]
           nothing == [store |-> out.store, httpReq |-> NilRequest]
       IN  \E b \in IF HasBaseline(out.baselines, Endpoint(req), out.Users[j].Name)
                    THEN buildRequestWithSwapIn(out.store, req, out.Users[i], out.Users[j])
                    ELSE {nothing} :
              out' = [out EXCEPT !.store = b.store, !.httpReq = b.httpReq,
                                 !.op = "testCrossUserWithBaseline", !.ops = @ + 1]
    /\ UNCHANGED <<scanVars, inp>>

\* one iteration of the queue loop of RunWithBaselineConcurrent
\* (concurrent.go:64-82): the lookup of the baseline, then the ScanJob with
\* copies of the three structs
HeapQueueJob(t, i, j) ==
    /\ Testing("conc") /\ out.Users[i].Name # out.Users[j].Name
    /\ LET req == out.Requests[t]
           endpoint == Endpoint(req)
           name == out.Users[j].Name
       IN  out' = [out EXCEPT
                      !.jobs = IF HasBaseline(out.baselines, endpoint, name)
                               THEN Append(@, [Request |-> req, Attacker |-> out.Users[i],
                                               Victim |-> out.Users[j],
                                               Baseline |-> BaselineOf(out.baselines,
                                                                       endpoint, name)])
                               ELSE @,
                      !.op = "queue", !.ops = @ + 1]
    /\ UNCHANGED <<scanVars, inp>>

\* executeScanJob(job) of a worker (concurrent.go:115-126)
HeapExecuteJob ==
    /\ Scanning /\ out.jobs # <<>>
    /\ LET job == Head(out.jobs)
       IN  \E b \in buildRequestWithSwapIn(out.store, job.Request, job.Attacker, job.Victim) :
              out' = [out EXCEPT !.store = b.store, !.httpReq = b.httpReq,
                                 !.jobs = Tail(@), !.op = "executeScanJob"]
    /\ UNCHANGED <<scanVars, inp>>

\* testNoAuth(req) of the three scans (types.go:109, 152-157)
HeapNoAuth(t) ==
    /\ Scanning /\ out.phase = "test" /\ out.ops < MaxOps
    /\ \E b \in buildRequestNoAuthIn(out.store, out.Requests[t]) :
          out' = [out EXCEPT !.store = b.store, !.httpReq = b.httpReq,
                             !.op = "testNoAuth", !.ops = @ + 1]
    /\ UNCHANGED <<scanVars, inp>>

NextInputs ==
    \/ HeapCapture
    \/ \E t \in DOMAIN out.Requests, i \in DOMAIN out.Users, j \in DOMAIN out.Users :
          HeapCrossAccess(t, i, j)
    \/ \E t \in DOMAIN out.Requests, i \in DOMAIN out.Users, j \in DOMAIN out.Users :
          HeapCrossSwap(t, i, j)
    \/ \E t \in DOMAIN out.Requests, i \in DOMAIN out.Users, j \in DOMAIN out.Users :
          HeapQueueJob(t, i, j)
    \/ HeapExecuteJob
    \/ \E t \in DOMAIN out.Requests : HeapNoAuth(t)

SpecInputs == InitInputs /\ [][NextInputs]_vars

(* C29: no operation of a scan (baseline capture, request building with     *)
(* substitution, cross-identity test, worker job, no-auth test) changes the *)
(* list of identities, the headers or the params of an identity, or a       *)
(* request template: what s.Users and s.Requests lead to in memory is what  *)
(* the scanner was given.  Once CaptureBaselines has returned, the          *)
(* baselines are the ones it returned.                                      *)
C29_ReadOnlyInputs ==
    Scanning =>
        /\ Reachable(out) = [Users |-> inp.Users, Requests |-> inp.Requests]
        /\ out.phase = "test" => out.baselines = out.returned

\* a worker has executed the job of alice against bob for the first template:
\* the request it built carries alice's Authorization header and the
\* template's Cookie, bob's identifier is in its URL, and the baselines of the
\* two identities are the ones that the capture returned
C29_Witness ==
    /\ Scanning /\ out.mode = "conc" /\ out.op = "executeScanJob"
    /\ out.httpReq # NilRequest
    /\ out.httpReq.URL = <<"/", "u", "/", "2">>
    /\ out.store[NewHeader] = (Authorization :> <<"identity", Authorization>>)
                              @@ (<<"C", "o", "o", "k", "i", "e">>
                                    :> <<"template", <<"C", "o", "o", "k", "i", "e">>>>)
    /\ DOMAIN out.returned[Endpoint(out.Requests[1])] = {"alice", "bob"}

\* the capture and the cross-identity test of Run build their requests with
\* buildRequest: headers of the identity and of the template were set
C29_WitnessBuildRequest ==
    /\ Scanning /\ out.op \in {"CaptureBaselines", "testCrossUserAccess"}
    /\ out.httpReq # NilRequest
    /\ \E k \in DOMAIN out.store[NewHeader] : out.store[NewHeader][k][1] = "identity"
    /\ \E k \in DOMAIN out.store[NewHeader] : out.store[NewHeader][k][1] = "template"

-----------------------------------------------------------------------------
(* Baselines during the capture: a baseline that CaptureBaselines has stored *)
(* for an endpoint and an identity, against the map it goes on building and  *)
(* returns.  The endpoint is the key "METHOD URL", so that two templates of  *)
(* a collection with the same method and URL share one inner map, which the  *)
(* loop makes anew for each of them.                                          *)

\* the templates of the scan have pairwise different endpoints
DistinctEndpoints ==
    \A i, j \in 1..T : Endpoint(requests[i]) = Endpoint(requests[j]) => i = j

\* C30: a baseline once recorded for an endpoint and an identity is present
\* in the map of CaptureBaselines from then on, whatever the templates
C30_BaselinesKept ==
    \A p \in recorded : HasBaseline(baselines, p[1], p[2])

\* the capture has returned a map without the baseline it had recorded for
\* the first of two templates of one endpoint
C30_Witness ==
    /\ pc # "capture" /\ T = 2 /\ ~DistinctEndpoints
    /\ \E p \in recorded : ~HasBaseline(baselines, p[1], p[2])

\* with templates of pairwise different endpoints every recorded baseline is
\* kept
C30_KeptWhenDistinct ==
    DistinctEndpoints => \A p \in recorded : HasBaseline(baselines, p[1], p[2])
-----------------------------------------------------------------------------
(* The substitution in two executions on the same inputs.  The loops of     *)
(* buildRequest, BuildSwappedURL and BuildSwappedBody range over Go maps,   *)
(* and each execution visits the entries in an order of its own.            *)

Seven == <<"7">>
Eight == <<"8">>

\* the pieces of the texts: a separator, the placeholders of id and org, and
\* values of the attacker
OrderPieces == { <<"/">>, <<"{","i","d","}">>, <<"{","o","r","g","}">>, Nine, FortyTwo }

OrderTexts == {Flatten(f) : f \in UNION {[1..n -> OrderPieces] : n \in 1..MaxSegments}}

\* the victim's maps: a value that is a value of the attacker, a value that
\* holds the placeholder of the other name, values of its own
OrderVictims ==
    { Put(Put(EmptyMap, id, FortyTwo), org, Seven),
      Put(Put(EmptyMap, id, <<"{","o","r","g","}">>), org, Seven),
      Put(Put(EmptyMap, id, Seven), org, Eight) }

\* the attacker's maps: one entry, two values, the same value twice
OrderAttackers ==
    { Put(EmptyMap, id, Nine),
      Put(Put(EmptyMap, id, Nine), org, FortyTwo),
      Put(Put(EmptyMap, id, Nine), org, Nine) }

OrderOperations == {"buildRequest", "BuildSwappedURL", "BuildSwappedBody"}

InitOrder ==
    /\ ScanOff
    /\ \E text \in OrderTexts, vp \in OrderVictims, ap \in OrderAttackers :
          inp = [kind |-> "order", text |-> text, victim |-> vp, attacker |-> ap]
    /\ out = NoValue

\* the texts that one execution of the operation can build from the inputs;
\* of buildRequest, the text that its substitution loop hands to
\* http.NewRequest
Built(op) ==
    IF op = "buildRequest"
    THEN {ReplacePlaceholders(inp.text, inp.victim, o) : o \in Orders(DOMAIN inp.victim)}
    ELSE IF op = "BuildSwappedURL"
    THEN BuildSwappedURL(inp.text, inp.attacker, inp.victim)
    ELSE BuildSwappedBody(inp.text, inp.attacker, inp.victim)

\* one execution of one of the operations
ExecuteFirst ==
    /\ inp.kind = "order" /\ out = NoValue
    /\ \E op \in OrderOperations : \E r \in Built(op) :
          out' = [kind |-> "first", op |-> op, first |-> r]
    /\ UNCHANGED <<scanVars, inp>>

\* another execution of the same operation on the same inputs
ExecuteSecond ==
    /\ out.kind = "first"
    /\ \E r \in Built(out.op) :
          out' = [kind |-> "second", op |-> out.op, first |-> out.first, second |-> r]
    /\ UNCHANGED <<scanVars, inp>>

NextOrder == ExecuteFirst \/ ExecuteSecond

SpecOrder == InitOrder /\ [][NextOrder]_vars

(* C31: for a fixed string and fixed maps of the attacker and the victim,   *)
(* two executions of buildRequest's substitution, of BuildSwappedURL or of  *)
(* BuildSwappedBody build the same text, whatever the order in which each   *)
(* visits the entries of the maps.                                          *)
C31_OrderIndependent ==
    out.kind = "second" => out.second = out.first

\* "{id}" with id = "{org}" and org = "7": "7" when id is visited first,
\* "{org}" when org is visited first
C31_Witness ==
    /\ out.kind = "second" /\ out.op = "buildRequest"
    /\ inp.text = <<"{","i","d","}">>
    /\ inp.victim = Put(Put(EmptyMap, id, <<"{","o","r","g","}">>), org, Seven)
    /\ out.first = Seven
    /\ out.second = <<"{","o","r","g","}">>

\* "/9/" with the attacker's id = 9, org = 42 and the victim's id = 42,
\* org = 7: "/7/" when id is visited first, "/42/" when org is visited first
C31_WitnessLiteral ==
    /\ out.kind = "second" /\ out.op = "BuildSwappedURL"
    /\ inp.text = <<"/">> \o Nine \o <<"/">>
    /\ inp.attacker = Put(Put(EmptyMap, id, Nine), org, FortyTwo)
    /\ inp.victim = Put(Put(EmptyMap, id, FortyTwo), org, Seven)
    /\ out.first = <<"/">> \o Seven \o <<"/">>
    /\ out.second = <<"/">> \o FortyTwo \o <<"/">>

\* no value of the victim holds a placeholder of a name of the victim
NoPlaceholderInValues(vp) ==
    \A k1, k2 \in DOMAIN vp : \A i \in 1..3 : ~Contains(vp[k1], Placeholders(k2)[i])

\* no value of the attacker is held by the value, of either map, of another
\* name of the attacker
ValuesApart(ap, vp) ==
    \A k1, k2 \in DOMAIN ap :
        k1 # k2 => /\ ~Contains(ap[k1], ap[k2])
                   /\ (k1 \in DOMAIN vp => ~Contains(vp[k1], ap[k2]))

(* What the operations do achieve: when no value holds a placeholder, and   *)
(* no value of the attacker is held by a value of another name, the text is *)
(* the same in every order.                                                 *)
C31_IndependentWhenApart ==
    (/\ out.kind = "second"
     /\ NoPlaceholderInValues(inp.victim)
     /\ ValuesApart(inp.attacker, inp.victim))
        => out.second = out.first
-----------------------------------------------------------------------------
(* The baseline behind a CRITICAL finding.  CaptureBaselines records the    *)
(* status and the size of every response that arrived, and the tests        *)
(* compare sizes with what was recorded.                                    *)

\* the baseline in the returned map for the endpoint and the victim of a
\* cross-identity finding
BaselineBehind(f) ==
    BaselineOf(baselines, Endpoint([Method |-> f.Method, URL |-> f.Endpoint]),
               f.Description[3])

\* C32: whenever a cross-identity test has emitted CRITICAL, the baseline
\* recorded for the endpoint and the victim has status 200 or 201
C32_CriticalAgainstSuccess ==
    \A f \in Produced :
        f.Severity = "CRITICAL" => BaselineBehind(f).StatusCode \in {200, 201}

\* a CRITICAL finding of a 200 of 30 bytes against a baseline captured from
\* a 403 of 20 bytes
C32_Witness ==
    \E f \in CrossFindings(findings) :
        /\ f.Severity = "CRITICAL"
        /\ f.Evidence = <<200, 30, 20>>
        /\ BaselineBehind(f) = [StatusCode |-> 403, BodySize |-> 20]

(* What the tests do achieve: a CRITICAL finding is one of a response 200   *)
(* or 201 whose size is less than 50 bytes from the size of the recorded    *)
(* baseline, which is not empty.                                            *)
C32_CriticalAgainstRecorded ==
    \A f \in Produced :
        f.Severity = "CRITICAL" =>
            /\ Present(Endpoint([Method |-> f.Method, URL |-> f.Endpoint]), f.Description[3])
            /\ f.Evidence[1] \in {200, 201}
            /\ f.Evidence[3] = BaselineBehind(f).BodySize
            /\ f.Evidence[3] > 0
            /\ abs(f.Evidence[2] - f.Evidence[3]) < 50
-----------------------------------------------------------------------------
(* The findings against the tests that were executed *)

\* the cross-identity tests executed so far: the calls of
\* testCrossUserWithBaseline of the sequential scan, the jobs that the
\* workers have executed in the concurrent scan
CrossTestsExecuted ==
    IF mode = "seq" THEN Len(matrix) ELSE BagCardinality(executed)

\* the findings of the list that are of a test without credentials
NoAuthFindings(fs) == {fs[i] : i \in {j \in DOMAIN fs : Len(fs[j].Description) = 1}}

\* the findings that the workers have sent and the collector has not received
Uncollected == {i \in DOMAIN results : results[i].Finding # <<>>}

(* C33: every cross-identity test and every no-auth test contributes at     *)
(* most one finding: in every state of a scan the list has at most as many  *)
(* findings as cross-identity tests and no-auth tests were executed (the    *)
(* findings still on the results channel included); a cross-identity        *)
(* finding is CRITICAL or HIGH, a no-auth finding is HIGH, and no finding   *)
(* is MEDIUM.                                                               *)
C33_FindingBound ==
    /\ Len(findings) + Cardinality(Uncollected) <= CrossTestsExecuted + nNoAuth
    /\ Cardinality({i \in DOMAIN findings : Len(findings[i].Description) = 3})
          + Cardinality(Uncollected) <= CrossTestsExecuted
    /\ Cardinality({i \in DOMAIN findings : Len(findings[i].Description) = 1}) <= nNoAuth
    /\ \A f \in Produced : f.Severity \in {"CRITICAL", "HIGH"}
    /\ \A f \in NoAuthFindings(findings) : f.Severity = "HIGH"
    /\ \A i \in DOMAIN findings : findings[i].Severity # "MEDIUM"

\* a finished concurrent scan of one template by two identities in which each
\* of the two jobs and the no-auth test has found something: a CRITICAL and
\* a HIGH cross-identity finding and the HIGH finding without credentials
C33_Witness ==
    /\ mode = "conc" /\ pc = "done" /\ T = 1 /\ K = 2
    /\ CrossTestsExecuted = 2 /\ nNoAuth = 1 /\ Len(findings) = 3
    /\ {f.Severity : f \in CrossFindings(findings)} = {"CRITICAL", "HIGH"}
    /\ Cardinality(NoAuthFindings(findings)) = 1

\* the same in the sequential scan
C33_WitnessSequential ==
    /\ mode = "seq" /\ pc = "done" /\ T = 1 /\ K = 2
    /\ CrossTestsExecuted = 2 /\ nNoAuth = 1 /\ Len(findings) = 3
    /\ {f.Severity : f \in CrossFindings(findings)} = {"CRITICAL", "HIGH"}
    /\ Cardinality(NoAuthFindings(findings)) = 1
====
